---------------------------- MODULE Spec2Model ----------------------------
(***************************************************************************)
(* Model of the opinion-extraction pipeline of class_teacher_awards:       *)
(* the Mention Scanner (extract_professors_opinions_for_teacher), the      *)
(* Alias Generator (generate_teacher_aliases) and the Evidence Aggregator  *)
(* (get_all_professors_opinions).                                          *)
(*                                                                         *)
(* A Python str is a sequence of one-character strings; a Python list is   *)
(* a sequence; an Optional value is a sequence of length 0 (None) or 1.    *)
(***************************************************************************)
EXTENDS Integers, Sequences, FiniteSets, TLC

VARIABLES
    extract,    \* the frame of extract_professors_opinions_for_teacher
    aliasgen,   \* the frame of generate_teacher_aliases
    aggregate,  \* the frame of get_all_professors_opinions
    parse,      \* the frame of parse_eml_content
    message,    \* the frame of generate_recommendation_message
    excel,      \* the frame of a call of the spreadsheet parser
    awards      \* the frame of process_teacher_awards

vars == <<extract, aliasgen, aggregate, parse, message, excel, awards>>

Idle == [pc |-> "idle"]

---------------------------------------------------------------------------
(* Python str primitives, over the characters the inputs below use.        *)

\* The characters of the model in code point order (the order of str.__lt__).
CodePoints ==
    << "\t", "\n", "\r", " ", ",", ".",
       "A", "B", "C", "D", "E", "F", "G", "H", "I", "J", "K", "L", "M",
       "N", "O", "P", "Q", "R", "S", "T", "U", "V", "W", "X", "Y", "Z",
       "_",
       "a", "b", "c", "d", "e", "f", "g", "h", "i", "j", "k", "l", "m",
       "n", "o", "p", "q", "r", "s", "t", "u", "v", "w", "x", "y", "z" >>

UpperCase == << "A", "B", "C", "D", "E", "F", "G", "H", "I", "J", "K", "L", "M",
                "N", "O", "P", "Q", "R", "S", "T", "U", "V", "W", "X", "Y", "Z" >>

LowerCase == << "a", "b", "c", "d", "e", "f", "g", "h", "i", "j", "k", "l", "m",
                "n", "o", "p", "q", "r", "s", "t", "u", "v", "w", "x", "y", "z" >>

Range(f) == { f[x] : x \in DOMAIN f }

Ord == [ c \in Range(CodePoints) |-> CHOOSE i \in DOMAIN CodePoints : CodePoints[i] = c ]

\* str.lower() of one character
LowerChar ==
    [ c \in Range(CodePoints) |->
        IF c \in Range(UpperCase)
        THEN LowerCase[CHOOSE i \in DOMAIN UpperCase : UpperCase[i] = c]
        ELSE c ]

\* str.isspace() of one character: what str.split() and str.strip() remove
IsSpace(c) == c \in {" ", "\t", "\n", "\r"}

\* the characters the regular expression class \w matches
IsWord(c) == c \in Range(UpperCase) \cup Range(LowerCase) \cup {"_"}

\* the line boundaries of str.splitlines()
IsLineBreak(c) == c \in {"\n", "\r"}

RECURSIVE LowerFrom(_, _)
LowerFrom(s, i) ==
    IF i > Len(s) THEN <<>> ELSE <<LowerChar[s[i]]>> \o LowerFrom(s, i + 1)

\* s.lower()
Lower(s) == LowerFrom(s, 1)

RECURSIVE SplitFrom(_, _, _, _)
SplitFrom(s, i, word, words) ==
    IF i > Len(s)
    THEN IF word = <<>> THEN words ELSE Append(words, word)
    ELSE IF IsSpace(s[i])
         THEN SplitFrom(s, i + 1, <<>>,
                        IF word = <<>> THEN words ELSE Append(words, word))
         ELSE SplitFrom(s, i + 1, Append(word, s[i]), words)

\* s.split(): the maximal runs of non-whitespace characters of s
Split(s) == SplitFrom(s, 1, <<>>, <<>>)

RECURSIVE SplitOnFrom(_, _, _, _, _)
SplitOnFrom(s, sep, i, piece, pieces) ==
    IF i > Len(s)
    THEN Append(pieces, piece)
    ELSE IF s[i] = sep
         THEN SplitOnFrom(s, sep, i + 1, <<>>, Append(pieces, piece))
         ELSE SplitOnFrom(s, sep, i + 1, Append(piece, s[i]), pieces)

\* s.split(sep) for a one-character separator: empty pieces are kept
SplitOn(s, sep) == SplitOnFrom(s, sep, 1, <<>>, <<>>)

RECURSIVE Join(_, _)
\* sep.join(parts)
Join(sep, parts) ==
    IF parts = <<>> THEN <<>>
    ELSE IF Len(parts) = 1 THEN parts[1]
    ELSE parts[1] \o sep \o Join(sep, Tail(parts))

RECURSIVE LStrip(_)
LStrip(s) ==
    IF s = <<>> THEN s ELSE IF IsSpace(Head(s)) THEN LStrip(Tail(s)) ELSE s

RECURSIVE RStrip(_)
RStrip(s) ==
    IF s = <<>> THEN s
    ELSE IF IsSpace(s[Len(s)]) THEN RStrip(SubSeq(s, 1, Len(s) - 1)) ELSE s

\* s.strip()
Strip(s) == RStrip(LStrip(s))

RECURSIVE SplitLinesFrom(_, _, _, _)
SplitLinesFrom(s, i, line, lines) ==
    IF i > Len(s)
    THEN IF line = <<>> THEN lines ELSE Append(lines, line)
    ELSE IF IsLineBreak(s[i])
         THEN SplitLinesFrom(s,
                  IF s[i] = "\r" /\ i < Len(s) /\ s[i + 1] = "\n" THEN i + 2 ELSE i + 1,
                  <<>>, Append(lines, line))
         ELSE SplitLinesFrom(s, i + 1, Append(line, s[i]), lines)

\* s.splitlines(): the lines of s without their line breaks; a final line break
\* opens no further line
SplitLines(s) == SplitLinesFrom(s, 1, <<>>, <<>>)

RECURSIVE StrLess(_, _)
\* a < b for two str: lexicographic by code point, a proper prefix first
StrLess(a, b) ==
    IF b = <<>> THEN FALSE
    ELSE IF a = <<>> THEN TRUE
    ELSE IF Head(a) = Head(b) THEN StrLess(Tail(a), Tail(b))
    ELSE Ord[Head(a)] < Ord[Head(b)]

\* seq[start:end] for 0 <= start, 0 <= end (a Python slice, indices 0-based)
Slice(seq, start, end) ==
    SubSeq(seq, start + 1, IF end > Len(seq) THEN Len(seq) ELSE end)

Max(a, b) == IF a >= b THEN a ELSE b
Min(a, b) == IF a <= b THEN a ELSE b

\* Optional values
None == <<>>
Some(x) == <<x>>

\* all sequences over S of length 0..n
RECURSIVE SeqsUpTo(_, _)
SeqsUpTo(S, n) ==
    IF n = 0 THEN {<<>>}
    ELSE LET shorter == SeqsUpTo(S, n - 1)
         IN  shorter \cup { Append(s, x) : s \in shorter, x \in S }

---------------------------------------------------------------------------
(* The regular expression of the Mention Scanner.  A pattern is a sequence *)
(* of elements: a literal character, or one of the two zero-width          *)
(* assertions (?<!\w) and (?!\w).                                          *)

Literal(c) == [kind |-> "literal", char |-> c]
NotAfterWord == [kind |-> "not_after_word", char |-> ""]
NotBeforeWord == [kind |-> "not_before_word", char |-> ""]

RECURSIVE ReEscape(_)
\* re.escape(term): every character of term stands for itself
ReEscape(term) ==
    IF term = <<>> THEN <<>> ELSE <<Literal(Head(term))>> \o ReEscape(Tail(term))

MentionPatternNoLookahead(term) == <<NotAfterWord>> \o ReEscape(term)

\* rf'(?<!\w){re.escape(term)}(?!\w)'
MentionPattern(term) == <<NotAfterWord>> \o ReEscape(term) \o <<NotBeforeWord>>

RECURSIVE MatchHere(_, _, _, _)
\* whether the elements k.. of pattern match s with pos characters already consumed
MatchHere(pattern, k, s, pos) ==
    IF k > Len(pattern) THEN TRUE
    ELSE LET e == pattern[k]
         IN  CASE e.kind = "not_after_word" ->
                    /\ (pos = 0 \/ ~IsWord(s[pos]))
                    /\ MatchHere(pattern, k + 1, s, pos)
               [] e.kind = "not_before_word" ->
                    /\ (pos = Len(s) \/ ~IsWord(s[pos + 1]))
                    /\ MatchHere(pattern, k + 1, s, pos)
               [] e.kind = "literal" ->
                    /\ pos < Len(s)
                    /\ s[pos + 1] = e.char
                    /\ MatchHere(pattern, k + 1, s, pos + 1)

RECURSIVE SearchFrom(_, _, _)
SearchFrom(pattern, s, pos) ==
    IF pos > Len(s) THEN FALSE
    ELSE MatchHere(pattern, 1, s, pos) \/ SearchFrom(pattern, s, pos + 1)

\* re.search(pattern, s) is not None: the pattern matches at some position of s
ReSearch(pattern, s) == SearchFrom(pattern, s, 0)

---------------------------------------------------------------------------
(* extract_professors_opinions_for_teacher                                 *)

NormalizeKeepCase(s) == Join(<<" ">>, Split(s))

\* " ".join(s.lower().split())
Normalize(s) == Join(<<" ">>, Split(Lower(s)))

RECURSIVE NormalizedAliasesUnfiltered(_)
NormalizedAliasesUnfiltered(teacher_aliases) ==
    IF teacher_aliases = <<>> THEN <<>>
    ELSE <<Normalize(Head(teacher_aliases))>>
         \o NormalizedAliasesUnfiltered(Tail(teacher_aliases))

RECURSIVE NormalizedAliases(_)
\* [" ".join(alias.lower().split()) for alias in teacher_aliases if alias.strip()]
NormalizedAliases(teacher_aliases) ==
    IF teacher_aliases = <<>> THEN <<>>
    ELSE (IF Strip(Head(teacher_aliases)) # <<>>
          THEN <<Normalize(Head(teacher_aliases))>> ELSE <<>>)
         \o NormalizedAliases(Tail(teacher_aliases))

\* the truth value of an Optional[List]: None and [] are false
Truthy(opt) == opt # None /\ opt[1] # <<>>

SearchTermsNeedAliases(teacher_name, teacher_aliases) ==
    IF Truthy(teacher_aliases)
    THEN <<Normalize(teacher_name)>> \o NormalizedAliases(teacher_aliases[1])
    ELSE <<>>

\* search_terms, lines 107-110
SearchTerms(teacher_name, teacher_aliases) ==
    <<Normalize(teacher_name)>>
    \o (IF Truthy(teacher_aliases) THEN NormalizedAliases(teacher_aliases[1]) ELSE <<>>)

ContextSnippetShort(lines, i, context_window_lines) ==
    LET start_index == Max(0, i - context_window_lines)
        end_index   == Min(Len(lines), i + context_window_lines)
    IN  Strip(Join(<<"\n">>, Slice(lines, start_index, end_index)))

\* context_snippet, lines 121-123 (i is 0-based)
ContextSnippet(lines, i, context_window_lines) ==
    LET start_index == Max(0, i - context_window_lines)
        end_index   == Min(Len(lines), i + context_window_lines + 1)
    IN  Strip(Join(<<"\n">>, Slice(lines, start_index, end_index)))

\* lines 124-125: if context_snippet: opinions.add(context_snippet)
AddOpinion(opinions, context_snippet) ==
    IF context_snippet # <<>> THEN opinions \cup {context_snippet} ELSE opinions

RECURSIVE TermLoopNoBreak(_, _, _, _, _)
TermLoopNoBreak(search_terms, k, normalized_line, context_snippet, st) ==
    IF k > Len(search_terms) THEN st
    ELSE TermLoopNoBreak(search_terms, k + 1, normalized_line, context_snippet,
             IF ReSearch(MentionPattern(search_terms[k]), normalized_line)
             THEN [opinions |-> AddOpinion(st.opinions, context_snippet),
                   tested   |-> k,
                   hits     |-> st.hits + 1]
             ELSE [st EXCEPT !.tested = k])

RECURSIVE TermLoop(_, _, _, _, _)
\* the loop over search_terms of lines 116-126, from the k-th term on.  st holds
\* the opinions so far, the number of terms tested on this line and the number of
\* times the body of the if was run for this line.
TermLoop(search_terms, k, normalized_line, context_snippet, st) ==
    IF k > Len(search_terms) THEN st
    ELSE IF ReSearch(MentionPattern(search_terms[k]), normalized_line)
         THEN [opinions |-> AddOpinion(st.opinions, context_snippet),
               tested   |-> k,
               hits     |-> st.hits + 1]           \* break
         ELSE TermLoop(search_terms, k + 1, normalized_line, context_snippet,
                       [st EXCEPT !.tested = k])

ScanLineStepTwoTerms(lines, i, search_terms, context_window_lines, opinions) ==
    TermLoop(SubSeq(search_terms, 1, Min(2, Len(search_terms))), 1, Normalize(lines[i + 1]),
             ContextSnippet(lines, i, context_window_lines),
             [opinions |-> opinions, tested |-> 0, hits |-> 0])

\* the body of the loop over the lines of one document, lines 115-126
ScanLineStep(lines, i, search_terms, context_window_lines, opinions) ==
    TermLoop(search_terms, 1, Normalize(lines[i + 1]),
             ContextSnippet(lines, i, context_window_lines),
             [opinions |-> opinions, tested |-> 0, hits |-> 0])

RECURSIVE SortedDescending(_)
SortedDescending(S) ==
    IF S = {} THEN <<>>
    ELSE LET m == CHOOSE x \in S : \A y \in S : y = x \/ StrLess(y, x)
         IN  <<m>> \o SortedDescending(S \ {m})

RECURSIVE Sorted(_)
\* sorted(list(opinions)), line 127
Sorted(S) ==
    IF S = {} THEN <<>>
    ELSE LET m == CHOOSE x \in S : \A y \in S : y = x \/ StrLess(x, y)
         IN  <<m>> \o Sorted(S \ {m})

---------------------------------------------------------------------------
(* Inputs of the Mention Scanner                                           *)

MaxLineLen == 3      \* length of the generated one-line documents
MaxDocLines == 3     \* lines of the generated documents
MaxWindow == 1       \* context_window_lines of the generated calls
MaxDocs == 2         \* documents of the generated corpora

\* context_window_lines: int = 2
DefaultWindow == 2

\* the characters of the generated lines: letters in both cases, a word character
\* that is no letter, a punctuation mark and two kinds of whitespace
LineChars == {"a", "b", "A", "_", ".", " ", "\t"}

GenNames == { <<"a","b">>, <<"A"," ","b">>, <<"a",".">>, <<" ">> }

GenAliasLists ==
    { None, Some(<<>>), Some(<< <<"B">> >>), Some(<< <<" ">>, <<"b","\t","_">>, <<"b">> >>) }

\* every call on one document of one line of at most MaxLineLen characters
LineInputs ==
    [ teacher_name : GenNames, teacher_aliases : GenAliasLists,
      eml_texts : { <<l>> : l \in SeqsUpTo(LineChars, MaxLineLen) },
      context_window_lines : {DefaultWindow} ]

LinePool == { <<"a","b",".">>, <<"A","B">>, <<"b">>, <<>>, <<" ">>, <<"a","b","b">> }

\* every call on one document of at most MaxDocLines lines of LinePool
DocInputs ==
    [ teacher_name : { <<"a","b">> }, teacher_aliases : { None, Some(<< <<"B">> >>) },
      eml_texts : { <<Join(<<"\n">>, ls)>> : ls \in SeqsUpTo(LinePool, MaxDocLines) },
      context_window_lines : 0..MaxWindow ]

DocPool == { <<"a","b","\n","b">>, <<"a","b","\r","\n","b","\n">>, <<"b","\n","\n","a","b","\n","b">> }

\* every call on a corpus of at most MaxDocs documents of DocPool
CorpusInputs ==
    [ teacher_name : { <<"a","b">> }, teacher_aliases : { None, Some(<< <<"B">> >>) },
      eml_texts : SeqsUpTo(DocPool, MaxDocs),
      context_window_lines : 0..MaxWindow ]

Thomas == <<"T","h","o","m","a","s">>
Tom == <<"T","o","m">>
TomIsExcellent == <<"T","o","m"," ","i","s"," ","e","x","c","e","l","l","e","n","t",".">>
TommyIsHisSon == <<"T","o","m","m","y"," ","i","s"," ","h","i","s"," ","s","o","n",".">>
BottomLineIsClear == <<"B","o","t","t","o","m"," ","l","i","n","e"," ","i","s"," ","c","l","e","a","r",".">>
DrAlpha == <<"D","r","."," ","A","l","p","h","a">>
ForDrAlphaLower == <<"f","o","r"," ","d","r","."," ","a","l","p","h","a",".">>
DrAlphaUpperSpaced == <<"D","R","."," "," "," ","A","L","P","H","A"," ","t","o","o">>

\* the calls of test_extract_professors_opinions_word_boundaries and
\* test_extract_professors_opinions_for_teacher_case_insensitive
TestInputs ==
    { [ teacher_name |-> Thomas, teacher_aliases |-> Some(<<Tom>>),
        eml_texts |-> <<TomIsExcellent, TommyIsHisSon, BottomLineIsClear>>,
        context_window_lines |-> 0 ],
      [ teacher_name |-> DrAlpha, teacher_aliases |-> None,
        eml_texts |-> <<ForDrAlphaLower, DrAlphaUpperSpaced>>,
        context_window_lines |-> DefaultWindow ] }

ExtractInputs == LineInputs \cup DocInputs \cup CorpusInputs \cup TestInputs

---------------------------------------------------------------------------
(* The scan as a state machine: one step per document line.                *)

\* the frame of a call at its entry
ExtractCall(teacher_name, eml_texts, context_window_lines, teacher_aliases) ==
    [ pc |-> "start",
      teacher_name |-> teacher_name,
      eml_texts |-> eml_texts,
      context_window_lines |-> context_window_lines,
      teacher_aliases |-> teacher_aliases,
      search_terms |-> <<>>,
      doc |-> 0, lines |-> <<>>, i |-> 0,
      opinions |-> {},
      mentions |-> {}, tested |-> 0, hits |-> 0,
      result |-> <<>> ]

BeginScanAliasesFirst(f) ==
    [ f EXCEPT
        !.pc = "scan",
        !.search_terms = IF Truthy(f.teacher_aliases)
                         THEN NormalizedAliases(f.teacher_aliases[1])
                         ELSE <<Normalize(f.teacher_name)>>,
        !.doc = 1,
        !.lines = IF f.eml_texts = <<>> THEN <<>> ELSE SplitLines(f.eml_texts[1]),
        !.i = 0 ]

\* lines 104-112: the search terms, then the first document
BeginScan(f) ==
    [ f EXCEPT
        !.pc = "scan",
        !.search_terms = SearchTerms(f.teacher_name, f.teacher_aliases),
        !.doc = 1,
        !.lines = IF f.eml_texts = <<>> THEN <<>> ELSE SplitLines(f.eml_texts[1]),
        !.i = 0 ]

\* lines 114-126: one line of the current document
ScanLine(f) ==
    LET st == ScanLineStep(f.lines, f.i, f.search_terms, f.context_window_lines, f.opinions)
    IN  [ f EXCEPT
            !.opinions = st.opinions,
            !.tested = st.tested,
            !.hits = st.hits,
            !.mentions = IF st.hits > 0 THEN @ \cup {<<f.doc, f.i>>} ELSE @,
            !.i = @ + 1 ]

NextTextConsuming(f) ==
    [ f EXCEPT
        !.eml_texts = Tail(@),
        !.lines = IF Len(f.eml_texts) > 1 THEN SplitLines(f.eml_texts[2]) ELSE <<>>,
        !.i = 0 ]

\* line 112: the next document of eml_texts
NextText(f) ==
    [ f EXCEPT
        !.doc = @ + 1,
        !.lines = IF f.doc + 1 <= Len(f.eml_texts)
                  THEN SplitLines(f.eml_texts[f.doc + 1]) ELSE <<>>,
        !.i = 0 ]

\* line 127
ReturnSorted(f) == [ f EXCEPT !.pc = "done", !.result = Sorted(f.opinions) ]

MoreTexts(f) == f.pc = "scan" /\ f.doc <= Len(f.eml_texts)
MoreLines(f) == MoreTexts(f) /\ f.i < Len(f.lines)

RECURSIVE ExtractRun(_)
\* the call run to its return
ExtractRun(f) ==
    IF f.pc = "start" THEN ExtractRun(BeginScan(f))
    ELSE IF MoreLines(f) THEN ExtractRun(ScanLine(f))
    ELSE IF MoreTexts(f) THEN ExtractRun(NextText(f))
    ELSE IF f.pc = "scan" THEN ReturnSorted(f)
    ELSE f

\* extract_professors_opinions_for_teacher(teacher_name, eml_texts,
\*     context_window_lines, teacher_aliases)
ExtractOpinions(teacher_name, eml_texts, context_window_lines, teacher_aliases) ==
    ExtractRun(ExtractCall(teacher_name, eml_texts, context_window_lines,
                           teacher_aliases)).result

ExtractInit ==
    /\ \E in \in ExtractInputs :
         extract = ExtractCall(in.teacher_name, in.eml_texts, in.context_window_lines,
                               in.teacher_aliases)
    /\ aliasgen = Idle
    /\ aggregate = Idle
    /\ parse = Idle
    /\ message = Idle
    /\ excel = Idle
    /\ awards = Idle

ExtractBegin ==
    /\ extract.pc = "start"
    /\ extract' = BeginScan(extract)
    /\ UNCHANGED <<aliasgen, aggregate, parse, message, excel, awards>>

ExtractScanLine ==
    /\ MoreLines(extract)
    /\ extract' = ScanLine(extract)
    /\ UNCHANGED <<aliasgen, aggregate, parse, message, excel, awards>>

ExtractNextText ==
    /\ MoreTexts(extract)
    /\ ~MoreLines(extract)
    /\ extract' = NextText(extract)
    /\ UNCHANGED <<aliasgen, aggregate, parse, message, excel, awards>>

ExtractReturn ==
    /\ extract.pc = "scan"
    /\ ~MoreTexts(extract)
    /\ extract' = ReturnSorted(extract)
    /\ UNCHANGED <<aliasgen, aggregate, parse, message, excel, awards>>

ExtractNext == ExtractBegin \/ ExtractScanLine \/ ExtractNextText \/ ExtractReturn

ExtractSpec == ExtractInit /\ [][ExtractNext]_vars

---------------------------------------------------------------------------
(* Properties of the Mention Scanner                                       *)

\* term occurs in s after p characters
OccursAt(term, s, p) ==
    /\ p + Len(term) <= Len(s)
    /\ \A k \in 1..Len(term) : s[p + k] = term[k]

\* the characters next to that occurrence are absent or no word characters
WordBoundedAt(term, s, p) ==
    /\ (p = 0 \/ ~IsWord(s[p]))
    /\ (p + Len(term) = Len(s) \/ ~IsWord(s[p + Len(term) + 1]))

TermMentioned(term, line) ==
    LET n == Normalize(line)
    IN  \E p \in 0..Len(n) : OccursAt(term, n, p) /\ WordBoundedAt(term, n, p)

IsMention(terms, line) == \E k \in DOMAIN terms : TermMentioned(terms[k], line)

\* a line of the current document has just been scanned
LineScanned == extract.pc = "scan" /\ extract.i > 0
LastLine == extract.lines[extract.i]
LastLineMentioned == <<extract.doc, extract.i - 1>> \in extract.mentions

\* the documents scanned so far, split into lines
DocLines(d) == SplitLines(extract.eml_texts[d])

\* the window of the claim: the lines max(0, i-w) .. min(n-1, i+w) of the document
\* (0-based), joined by newlines and stripped
WindowOf(lines, i, w) ==
    LET first == Max(0, i - w)
        last  == Min(Len(lines) - 1, i + w)
    IN  Strip(Join(<<"\n">>, [k \in 1..(last - first + 1) |-> lines[first + k]]))

MentionWindows ==
    { WindowOf(DocLines(m[1]), m[2], extract.context_window_lines) :
        m \in extract.mentions }

\* a < b in lexicographic order: at the first position where they differ a has the
\* smaller character, or a ends there
LexLess(a, b) ==
    \E k \in 1..(Len(b)) :
        /\ k <= Len(a) + 1
        /\ \A j \in 1..(k - 1) : a[j] = b[j]
        /\ (k = Len(a) + 1 \/ Ord[a[k]] < Ord[b[k]])

\* C1: a scanned line is treated as a mention if and only if some search term
\* occurs in its lower-cased, whitespace-collapsed form with no word character
\* immediately before or after the occurrence; the call of the word-boundary test
\* (alias Tom, window 0) returns exactly the snippet 'Tom is excellent.'.
C1_WordBoundary ==
    /\ LineScanned => (LastLineMentioned <=> IsMention(extract.search_terms, LastLine))
    /\ (extract.pc = "done" /\ extract.teacher_name = Thomas)
         => extract.result = <<TomIsExcellent>>

\* a scanned line holds a search term inside a longer word and is not a mention
C1_Witness ==
    /\ LineScanned
    /\ ~LastLineMentioned
    /\ \E k \in DOMAIN extract.search_terms : \E p \in 0..Len(LastLine) :
         /\ extract.search_terms[k] # <<>>
         /\ OccursAt(extract.search_terms[k], Normalize(LastLine), p)

\* C2: the snippets collected are exactly the windows of the mentions: the lines
\* max(0, i-w) .. min(n-1, i+w) of the mention's own document, joined by newlines
\* and stripped (an empty window gives no snippet).
C2_ContextWindow ==
    extract.pc \in {"scan", "done"} => extract.opinions = MentionWindows \ {<<>>}

\* a mention on the first line of a document with lines beyond its window
C2_Witness ==
    /\ LineScanned
    /\ LastLineMentioned
    /\ extract.context_window_lines >= 1
    /\ extract.i = 1
    /\ Len(extract.lines) > 1 + extract.context_window_lines
    /\ Len(SplitLines(WindowOf(extract.lines, 0, extract.context_window_lines)))
         = 1 + extract.context_window_lines

\* C3: the list returned has no empty string and is in strictly ascending
\* lexicographic order (so no string occurs twice), with one entry per distinct
\* non-empty window.
C3_SortedUnique ==
    extract.pc = "done" =>
        /\ \A k \in DOMAIN extract.result : extract.result[k] # <<>>
        /\ \A j, k \in DOMAIN extract.result :
               j < k => LexLess(extract.result[j], extract.result[k])
        /\ Len(extract.result) = Cardinality(MentionWindows \ {<<>>})

\* two mentions with the same window, and two different snippets returned
C3_Witness ==
    /\ extract.pc = "done"
    /\ Len(extract.result) >= 2
    /\ Cardinality(extract.mentions) > Len(extract.result)
    /\ \A m \in extract.mentions :
         WindowOf(DocLines(m[1]), m[2], extract.context_window_lines) # <<>>

FirstMatching(terms, line) ==
    CHOOSE k \in DOMAIN terms :
        /\ TermMentioned(terms[k], line)
        /\ \A j \in 1..(k - 1) : ~TermMentioned(terms[j], line)

RECURSIVE TotalLines(_)
TotalLines(texts) ==
    IF texts = <<>> THEN 0 ELSE Len(SplitLines(Head(texts))) + TotalLines(Tail(texts))

\* C4: a line runs the body of the match at most once; the terms are tested in
\* order up to the first one that matches (all of them when none does); the number
\* of snippets never exceeds the number of lines of the corpus.
C4_FirstMatchWins ==
    /\ LineScanned =>
         /\ extract.hits <= 1
         /\ extract.tested =
              IF IsMention(extract.search_terms, LastLine)
              THEN FirstMatching(extract.search_terms, LastLine)
              ELSE Len(extract.search_terms)
    /\ extract.pc \in {"scan", "done"} =>
         Cardinality(extract.opinions) <= Cardinality(extract.mentions)
    /\ extract.pc = "done" => Len(extract.result) <= TotalLines(extract.eml_texts)

\* a line that two of the search terms match, the first of them not the last term
C4_Witness ==
    /\ LineScanned
    /\ extract.hits = 1
    /\ extract.tested < Len(extract.search_terms)
    /\ Cardinality({ k \in DOMAIN extract.search_terms :
                       TermMentioned(extract.search_terms[k], LastLine) }) >= 2

UpperChar(c) ==
    IF c \in Range(LowerCase)
    THEN UpperCase[CHOOSE i \in DOMAIN LowerCase : LowerCase[i] = c]
    ELSE c

\* s with every letter in upper case
Upper(s) == [k \in 1..Len(s) |-> UpperChar(s[k])]

RECURSIVE Widen(_)
\* s with every whitespace character doubled into a tab and a space
Widen(s) ==
    IF s = <<>> THEN <<>>
    ELSE (IF IsSpace(Head(s)) THEN <<"\t", " ">> ELSE <<Head(s)>>) \o Widen(Tail(s))

\* s in upper case, its whitespace widened, with whitespace added at both ends
Disguised(s) == <<" ">> \o Widen(Upper(s)) \o <<"\t">>

CodeMentions(search_terms, line) ==
    ScanLineStep(<<line>>, 0, search_terms, 0, {}).hits > 0

\* C5: matching ignores letter case and the amount of whitespace, in the line and
\* in the subject name and the aliases; the snippet keeps the text of the document.
\* 'Dr. Alpha' matches 'for dr. alpha.' and 'DR.   ALPHA too', returned as written.
C5_CaseAndWhitespace ==
    /\ LineScanned =>
         /\ LastLineMentioned <=> CodeMentions(extract.search_terms, Upper(LastLine))
         /\ LastLineMentioned <=> CodeMentions(extract.search_terms, Disguised(LastLine))
         /\ LastLineMentioned <=>
              CodeMentions(SearchTerms(Disguised(extract.teacher_name),
                                       IF extract.teacher_aliases = None THEN None
                                       ELSE Some([k \in DOMAIN extract.teacher_aliases[1] |->
                                                   Disguised(extract.teacher_aliases[1][k])])),
                           LastLine)
         /\ (LastLineMentioned /\ Strip(LastLine) # <<>>) =>
              \E o \in extract.opinions : \E p \in 0..Len(o) :
                  OccursAt(Strip(LastLine), o, p)
    /\ (extract.pc = "done" /\ extract.teacher_name = DrAlpha)
         => extract.result = <<DrAlphaUpperSpaced, ForDrAlphaLower>>

\* a mention on a line that is written in another case and with other whitespace
\* than the search term that matches it
C5_Witness ==
    /\ LineScanned
    /\ LastLineMentioned
    /\ extract.teacher_name = DrAlpha
    /\ LastLine = DrAlphaUpperSpaced
    /\ DrAlphaUpperSpaced \in extract.opinions

\* the call has no alias: teacher_aliases is None or []
NoAliases == extract.teacher_aliases = None \/ extract.teacher_aliases = Some(<<>>)

\* the lines of the corpus (document, 0-based line) where the subject's name,
\* lower-cased and whitespace-collapsed, occurs between word boundaries
NameMentions ==
    { m \in UNION { {d} \X (0..(Len(DocLines(d)) - 1)) : d \in 1..Len(extract.eml_texts) } :
        TermMentioned(Normalize(extract.teacher_name), DocLines(m[1])[m[2] + 1]) }

\* C13: with no alias (None or []), the only search term is the normalised name
\* of the subject, and the call returns the window of every line where that name
\* occurs between word boundaries, and nothing else.
C13_NoAliasNoCrash ==
    /\ (NoAliases /\ extract.pc \in {"scan", "done"}) =>
         extract.search_terms = <<Normalize(extract.teacher_name)>>
    /\ (NoAliases /\ extract.pc = "done") =>
         /\ extract.mentions = NameMentions
         /\ Range(extract.result) =
              { WindowOf(DocLines(m[1]), m[2], extract.context_window_lines) :
                  m \in NameMentions } \ {<<>>}

\* a call with the empty alias list that returns a snippet
C13_Witness ==
    /\ extract.pc = "done"
    /\ extract.teacher_aliases = Some(<<>>)
    /\ NameMentions # {}
    /\ extract.result # <<>>

\* the arguments of the call, as they are now
Arguments(f) == <<f.teacher_name, f.eml_texts, f.context_window_lines, f.teacher_aliases>>

\* C14: a second call with the same subject, aliases, corpus and window returns
\* the same list, in the same order; no step of a call changes the corpus or
\* the alias list passed in (or any other argument), and none calls the backend.
C14_IdempotentAndPure ==
    /\ [](extract.pc = "done" =>
            extract.result = ExtractOpinions(extract.teacher_name, extract.eml_texts,
                                             extract.context_window_lines,
                                             extract.teacher_aliases))
    /\ [][Arguments(extract') = Arguments(extract) /\ aliasgen' = aliasgen]_vars

\* a call with aliases over two documents that has returned two snippets
C14_Witness ==
    /\ extract.pc = "done"
    /\ Truthy(extract.teacher_aliases)
    /\ Len(extract.eml_texts) = 2
    /\ Len(extract.result) = 2

---------------------------------------------------------------------------
(* generate_teacher_aliases                                                *)

RECURSIVE OtherFacultyNames(_, _)
\* [name for name in all_teacher_names if name.lower() != teacher_name.lower()]
OtherFacultyNames(teacher_name, all_teacher_names) ==
    IF all_teacher_names = <<>> THEN <<>>
    ELSE (IF Lower(Head(all_teacher_names)) # Lower(teacher_name)
          THEN <<Head(all_teacher_names)>> ELSE <<>>)
         \o OtherFacultyNames(teacher_name, Tail(all_teacher_names))

NoneWord == <<"n","o","n","e">>

IsSentinelExact(llm_response_content) ==
    llm_response_content = <<>> \/ llm_response_content = NoneWord

\* not llm_response_content or llm_response_content.lower() == 'none', line 82
IsSentinel(llm_response_content) ==
    llm_response_content = <<>> \/ Lower(llm_response_content) = NoneWord

RECURSIVE StripNonEmpty(_)
\* [alias.strip() for alias in pieces if alias.strip()]
StripNonEmpty(pieces) ==
    IF pieces = <<>> THEN <<>>
    ELSE (IF Strip(Head(pieces)) # <<>> THEN <<Strip(Head(pieces))>> ELSE <<>>)
         \o StripNonEmpty(Tail(pieces))

\* aliases, line 86
ParseAliases(llm_response_content) == StripNonEmpty(SplitOn(llm_response_content, ","))

RECURSIVE FilterLoopOwnNameOnly(_, _, _, _, _, _)
FilterLoopOwnNameOnly(aliases, k, teacher_name, other_faculty_names, final_aliases, seen_aliases) ==
    IF k > Len(aliases) THEN final_aliases
    ELSE LET alias == aliases[k]
             is_original_name == Lower(alias) = Lower(teacher_name)
         IN  IF ~is_original_name /\ Lower(alias) \notin seen_aliases
             THEN FilterLoopOwnNameOnly(aliases, k + 1, teacher_name, other_faculty_names,
                                        Append(final_aliases, alias),
                                        seen_aliases \cup {Lower(alias)})
             ELSE FilterLoopOwnNameOnly(aliases, k + 1, teacher_name, other_faculty_names,
                                        final_aliases, seen_aliases)

RECURSIVE FilterLoop(_, _, _, _, _, _)
\* the loop of lines 92-100, from the k-th alias on
FilterLoop(aliases, k, teacher_name, other_faculty_names, final_aliases, seen_aliases) ==
    IF k > Len(aliases) THEN final_aliases
    ELSE LET alias == aliases[k]
             is_original_name == Lower(alias) = Lower(teacher_name)
             is_other_full_name ==
                 \E n \in DOMAIN other_faculty_names :
                     Lower(alias) = Lower(other_faculty_names[n])
         IN  IF ~is_original_name /\ ~is_other_full_name /\ Lower(alias) \notin seen_aliases
             THEN FilterLoop(aliases, k + 1, teacher_name, other_faculty_names,
                             Append(final_aliases, alias),
                             seen_aliases \cup {Lower(alias)})
             ELSE FilterLoop(aliases, k + 1, teacher_name, other_faculty_names,
                             final_aliases, seen_aliases)

\* final_aliases, lines 89-102
FilterAliases(aliases, teacher_name, other_faculty_names) ==
    FilterLoop(aliases, 1, teacher_name, other_faculty_names, <<>>, {})

\* what the backend call of lines 69-79 can do: raise, or return a response whose
\* message content is None or a str
Raises == [kind |-> "raises", content |-> <<>>]
NoContent == [kind |-> "no_content", content |-> <<>>]
Content(s) == [kind |-> "content", content |-> s]

Propagate(frame) == [frame EXCEPT !.pc = "raised"]

\* except Exception as e: ... return [], lines 104-106
OnException(frame) == [frame EXCEPT !.pc = "done", !.result = <<>>]

---------------------------------------------------------------------------
(* Inputs of the Alias Generator                                           *)

MaxRoster == 2       \* names of the generated rosters
MaxFragments == 3    \* comma-separated fragments of the generated responses

NamePool == { <<"A","l"," ","B">>, <<"C","y"," ","D">>, <<"a","l"," ","b">> }

\* fragments of a response: aliases in several spellings, the subject's and a
\* colleague's name, a colleague's name with a doubled space, nothing, the sentinel
FragmentPool ==
    { <<"A","l">>, <<" ","a","l">>, <<"A","L"," ","B"," ">>, <<"C","y"," ","D">>, <<"C","y"," "," ","D">>, <<>>, <<" ","N","O","N","E"," ">> }

GenResponses == { Join(<<",">>, fs) : fs \in SeqsUpTo(FragmentPool, MaxFragments) }

DrEleanorVance == <<"D","r","."," ","E","l","e","a","n","o","r"," ","V","a","n","c","e">>
DrTomSmith == <<"D","r","."," ","T","o","m"," ","S","m","i","t","h">>
Ellie == <<"E","l","l","i","e">>
EllieTomEllie == <<"E","l","l","i","e",","," ","D","r","."," ","T","o","m"," ","S","m","i","t","h",","," ","E","l","l","i","e">>

\* the response of test_generate_aliases_filters_original_name_and_duplicates for
\* its subject, the generated responses for the generated subjects
Responses(teacher_name) ==
    IF teacher_name = DrEleanorVance THEN {EllieTomEllie} ELSE GenResponses

BackendOutcomes(teacher_name) ==
    {Raises, NoContent} \cup { Content(s) : s \in Responses(teacher_name) }

\* the module globals client and OPENAI_API_KEY: unset, empty or set
Globals == { None, Some(<<>>), Some(<<"k">>) }

AliasInputs ==
    [ teacher_name : { <<"A","l"," ","B">>, <<"c","y"," ","d">> },
      all_teacher_names : SeqsUpTo(NamePool, MaxRoster),
      client : {None, Some(<<"k">>)}, OPENAI_API_KEY : Globals ]
    \cup
    [ teacher_name : {DrEleanorVance},
      all_teacher_names : {<<DrEleanorVance, DrTomSmith>>},
      client : {Some(<<"k">>)}, OPENAI_API_KEY : {Some(<<"k">>)} ]

---------------------------------------------------------------------------
(* The call as a state machine.                                            *)

\* the frame of a call at its entry, with the module globals it reads
AliasCallFrame(teacher_name, all_teacher_names, client, OPENAI_API_KEY) ==
    [ pc |-> "start",
      teacher_name |-> teacher_name,
      all_teacher_names |-> all_teacher_names,
      client |-> client,
      OPENAI_API_KEY |-> OPENAI_API_KEY,
      other_faculty_names |-> <<>>,
      calls |-> 0,
      outcome |-> None,
      llm_response_content |-> <<>>,
      aliases |-> <<>>,
      result |-> <<>> ]

\* lines 24-35: no client or no key returns []; otherwise the prompt is prepared
Guards(f) ==
    IF ~Truthy(f.client) THEN [f EXCEPT !.pc = "done", !.result = <<>>]
    ELSE IF ~Truthy(f.OPENAI_API_KEY) THEN [f EXCEPT !.pc = "done", !.result = <<>>]
    ELSE [f EXCEPT !.pc = "call",
                   !.other_faculty_names =
                       OtherFacultyNames(f.teacher_name, f.all_teacher_names)]

\* lines 68-80: the backend call, with outcome out, and the content of its
\* response, stripped
CallBackend(f, out) ==
    LET called == [f EXCEPT !.calls = @ + 1, !.outcome = Some(out)]
    IN  IF out.kind = "raises" THEN OnException(called)
        ELSE IF out.kind = "no_content" THEN OnException(called)  \* None.strip()
        ELSE [called EXCEPT !.pc = "reply", !.llm_response_content = Strip(out.content)]

\* lines 82-83
CheckSentinel(f) ==
    IF IsSentinel(f.llm_response_content)
    THEN [f EXCEPT !.pc = "done", !.result = <<>>]
    ELSE [f EXCEPT !.pc = "parse"]

\* line 86
Parse(f) == [f EXCEPT !.pc = "filter", !.aliases = ParseAliases(f.llm_response_content)]

\* lines 89-102
Filter(f) ==
    [f EXCEPT !.pc = "done",
              !.result = FilterAliases(f.aliases, f.teacher_name, f.other_faculty_names)]

RECURSIVE AliasRun(_, _)
\* the call run to its end, the backend call having outcome out
AliasRun(f, out) ==
    CASE f.pc = "start"  -> AliasRun(Guards(f), out)
      [] f.pc = "call"   -> AliasRun(CallBackend(f, out), out)
      [] f.pc = "reply"  -> AliasRun(CheckSentinel(f), out)
      [] f.pc = "parse"  -> AliasRun(Parse(f), out)
      [] f.pc = "filter" -> AliasRun(Filter(f), out)
      [] OTHER           -> f

AliasInit ==
    /\ \E in \in AliasInputs :
         aliasgen = AliasCallFrame(in.teacher_name, in.all_teacher_names, in.client,
                                   in.OPENAI_API_KEY)
    /\ extract = Idle
    /\ aggregate = Idle
    /\ parse = Idle
    /\ message = Idle
    /\ excel = Idle
    /\ awards = Idle

AliasGuards ==
    /\ aliasgen.pc = "start"
    /\ aliasgen' = Guards(aliasgen)
    /\ UNCHANGED <<extract, aggregate, parse, message, excel, awards>>

AliasCall ==
    /\ aliasgen.pc = "call"
    /\ \E out \in BackendOutcomes(aliasgen.teacher_name) :
         aliasgen' = CallBackend(aliasgen, out)
    /\ UNCHANGED <<extract, aggregate, parse, message, excel, awards>>

AliasSentinel ==
    /\ aliasgen.pc = "reply"
    /\ aliasgen' = CheckSentinel(aliasgen)
    /\ UNCHANGED <<extract, aggregate, parse, message, excel, awards>>

AliasParse ==
    /\ aliasgen.pc = "parse"
    /\ aliasgen' = Parse(aliasgen)
    /\ UNCHANGED <<extract, aggregate, parse, message, excel, awards>>

AliasFilter ==
    /\ aliasgen.pc = "filter"
    /\ aliasgen' = Filter(aliasgen)
    /\ UNCHANGED <<extract, aggregate, parse, message, excel, awards>>

AliasNext == AliasGuards \/ AliasCall \/ AliasSentinel \/ AliasParse \/ AliasFilter

AliasSpec == AliasInit /\ [][AliasNext]_vars

---------------------------------------------------------------------------
(* Properties of the Alias Generator                                       *)

\* a and b are equal up to the case of their letters
SameIgnoringCase(a, b) ==
    /\ Len(a) = Len(b)
    /\ \A k \in 1..Len(a) : UpperChar(a[k]) = UpperChar(b[k])

\* a is, up to case, the subject's name or a name of the roster
IsRosterName(a) ==
    \/ SameIgnoringCase(a, aliasgen.teacher_name)
    \/ \E n \in DOMAIN aliasgen.all_teacher_names :
         SameIgnoringCase(a, aliasgen.all_teacher_names[n])

\* the positions of the parsed aliases that survive: no roster name, and no
\* earlier alias equal to it up to case
KeptPositions ==
    { k \in DOMAIN aliasgen.aliases :
        /\ ~IsRosterName(aliasgen.aliases[k])
        /\ \A j \in 1..(k - 1) : ~SameIgnoringCase(aliasgen.aliases[j], aliasgen.aliases[k]) }

\* the n-th smallest element of a set of numbers
Nth(S, n) == CHOOSE k \in S : Cardinality({ j \in S : j < k }) = n - 1

AliasReturned == aliasgen.pc = "done"

\* C6: no alias returned equals, up to case, the subject's name, a roster name or
\* another alias returned; the aliases returned are the parsed fragments that are
\* no roster name, each at its first occurrence up to case, in the order of the
\* response; the response 'Ellie, Dr. Tom Smith, Ellie' gives ['Ellie'].
C6_AliasSet ==
    AliasReturned =>
        /\ \A k \in DOMAIN aliasgen.result : ~IsRosterName(aliasgen.result[k])
        /\ \A j, k \in DOMAIN aliasgen.result :
               j # k => ~SameIgnoringCase(aliasgen.result[j], aliasgen.result[k])
        /\ aliasgen.result =
               [n \in 1..Cardinality(KeptPositions) |-> aliasgen.aliases[Nth(KeptPositions, n)]]
        /\ (aliasgen.teacher_name = DrEleanorVance /\ aliasgen.calls = 1
              /\ aliasgen.outcome = Some(Content(EllieTomEllie)))
             => aliasgen.result = <<Ellie>>

\* a response with a colleague's name and an alias twice, of which one is returned
C6_Witness ==
    /\ AliasReturned
    /\ aliasgen.teacher_name = DrEleanorVance
    /\ aliasgen.aliases = <<Ellie, DrTomSmith, Ellie>>
    /\ aliasgen.result = <<Ellie>>

\* C7: no alias returned equals the subject's name or a roster name once both are
\* normalised as the Mention Scanner normalises its search terms.
C7_DiscriminableModuloWhitespace ==
    AliasReturned =>
        \A k \in DOMAIN aliasgen.result :
            /\ Normalize(aliasgen.result[k]) # Normalize(aliasgen.teacher_name)
            /\ \A n \in DOMAIN aliasgen.all_teacher_names :
                   Normalize(aliasgen.result[k]) # Normalize(aliasgen.all_teacher_names[n])

BackendRaised == aliasgen.outcome = Some(Raises)

\* C8: the call never ends in an exception; without a client or without an API
\* key it returns [] and makes no backend call; when the backend call raises it
\* returns [].
C8_DegradesToEmpty ==
    /\ aliasgen.pc # "raised"
    /\ (AliasReturned /\ (~Truthy(aliasgen.client) \/ ~Truthy(aliasgen.OPENAI_API_KEY)))
         => (aliasgen.result = <<>> /\ aliasgen.calls = 0)
    /\ (AliasReturned /\ BackendRaised) => aliasgen.result = <<>>
    /\ aliasgen.pc \notin {"start", "idle"} => aliasgen.calls <= 1

\* the backend was called, raised, and the call returned []
C8_Witness ==
    /\ AliasReturned
    /\ BackendRaised
    /\ aliasgen.calls = 1
    /\ aliasgen.result = <<>>

\* the response as the backend gave it
RawContent == aliasgen.outcome[1].content
GotContent == aliasgen.outcome # None /\ aliasgen.outcome[1].kind = "content"

\* every character of s is whitespace, or a comma when commas is true
OnlyBlank(s, commas) ==
    \A k \in 1..Len(s) : IsSpace(s[k]) \/ (commas /\ s[k] = ",")

\* s is the sentinel 'none' in some letter case, within whitespace
IsNoneWord(s) ==
    \E p \in 0..Len(s) :
        /\ p + 4 <= Len(s)
        /\ SameIgnoringCase([k \in 1..4 |-> s[p + k]], NoneWord)
        /\ \A k \in 1..Len(s) : (k <= p \/ k > p + 4) => IsSpace(s[k])

Unusable(s) == OnlyBlank(s, TRUE) \/ IsNoneWord(s)

\* the positions of the commas of s, with the positions before and after s
Cuts(s) == {0, Len(s) + 1} \cup { k \in 1..Len(s) : s[k] = "," }

\* the text between one comma of s and the next, stripped, in order
Segments(s) ==
    [ n \in 1..(Cardinality(Cuts(s)) - 1) |->
        Strip([k \in 1..(Nth(Cuts(s), n + 1) - Nth(Cuts(s), n) - 1) |->
                 s[Nth(Cuts(s), n) + k]]) ]

\* C9: a response that is blank, the sentinel 'none' in any letter case, or only
\* commas and whitespace gives []; of any other response the parsed aliases are
\* the non-empty stripped texts between its commas, in order.
C9_UnusableContent ==
    /\ (AliasReturned /\ GotContent /\ Unusable(RawContent)) => aliasgen.result = <<>>
    /\ (aliasgen.pc \in {"filter", "done"} /\ GotContent /\ ~Unusable(RawContent)) =>
         aliasgen.aliases = SelectSeq(Segments(RawContent), LAMBDA x : x # <<>>)

\* a response of commas and whitespace only, with a comma in it
C9_Witness ==
    /\ AliasReturned
    /\ GotContent
    /\ OnlyBlank(RawContent, TRUE)
    /\ ~OnlyBlank(RawContent, FALSE)
    /\ aliasgen.result = <<>>

---------------------------------------------------------------------------
(* The Evidence Aggregator, get_all_professors_opinions.                   *)

\* line 92 of parse_eml_content: the lines of the decoded body, stripped,
\* without the empty ones, joined by newlines
NormalizeBody(body) == Join(<<"\n">>, StripNonEmpty(SplitLines(body)))

\* what a message file gives: it cannot be read or parsed, or it has a body
Unreadable == [kind |-> "unreadable", text |-> <<>>]
Body(s) == [kind |-> "body", text |-> s]
\* the module attribute parse_eml_content replaced by a stand-in that returns
\* s, as the tests of the aggregator replace it
Patched(s) == [kind |-> "patched", text |-> s]

\* parse_eml_content(file_path), the file being as `file` says
ParseEmlContent(file) ==
    CASE file.kind = "unreadable" -> <<>>                  \* lines 93-95
      [] file.kind = "body"       -> NormalizeBody(file.text)
      [] OTHER                    -> file.text

\* line 131
NoOpinions(teachers_list) == [ name \in Range(teachers_list) |-> <<>> ]

DictSetUnlessEmpty(dict, key, value) ==
    IF value = <<>> THEN [ k \in DOMAIN dict \ {key} |-> dict[k] ]
    ELSE [ k \in DOMAIN dict \cup {key} |-> IF k = key THEN value ELSE dict[k] ]

\* dict[key] = value: the key is added when the dict does not have it
DictSet(dict, key, value) ==
    [ k \in DOMAIN dict \cup {key} |-> IF k = key THEN value ELSE dict[k] ]

KeepAllButEmpty(eml_contents) == SelectSeq(eml_contents, LAMBDA content : content # <<>>)

\* line 140
KeepWithContent(eml_contents) ==
    SelectSeq(eml_contents, LAMBDA content : Strip(content) # <<>>)

\* the frame of a call at its entry, with the module globals it and the
\* Alias Generator read
AggregateCall(teachers_list, EML_FILE_PATHS, client, OPENAI_API_KEY) ==
    [ pc |-> "start",
      teachers_list |-> teachers_list,
      EML_FILE_PATHS |-> EML_FILE_PATHS,
      client |-> client,
      OPENAI_API_KEY |-> OPENAI_API_KEY,
      all_opinions |-> << >>,
      parsed |-> <<>>,          \* line 138, before the filter of line 140
      eml_contents |-> <<>>,
      file |-> 0,               \* position in EML_FILE_PATHS
      teacher |-> 0,            \* position in teachers_list
      aliases |-> <<>>,
      parse_calls |-> 0,        \* calls of parse_eml_content
      alias_calls |-> 0,        \* calls of generate_teacher_aliases
      extract_calls |-> 0 ]     \* calls of extract_professors_opinions_for_teacher

\* lines 131-135
StartAggregate(f) ==
    LET made == [f EXCEPT !.all_opinions = NoOpinions(f.teachers_list)]
    IN  IF f.EML_FILE_PATHS = <<>> THEN [made EXCEPT !.pc = "done"]
        ELSE [made EXCEPT !.pc = "parse", !.file = 1]

ParseFileUnguarded(f, file) ==
    IF f.EML_FILE_PATHS[f.file] = <<>> THEN [f EXCEPT !.file = @ + 1]
    ELSE IF file.kind = "unreadable" THEN [f EXCEPT !.parse_calls = @ + 1, !.pc = "raised"]
    ELSE [f EXCEPT !.file = @ + 1,
                   !.parse_calls = @ + 1,
                   !.parsed = Append(@, ParseEmlContent(file))]

\* line 138, one path: an empty path is passed over
ParseFile(f, file) ==
    IF f.EML_FILE_PATHS[f.file] = <<>> THEN [f EXCEPT !.file = @ + 1]
    ELSE [f EXCEPT !.file = @ + 1,
                   !.parse_calls = @ + 1,
                   !.parsed = Append(@, ParseEmlContent(file))]

\* lines 140-144
FilterContents(f) ==
    LET kept == KeepWithContent(f.parsed)
    IN  IF kept = <<>> THEN [f EXCEPT !.eml_contents = kept, !.pc = "done"]
        ELSE [f EXCEPT !.eml_contents = kept, !.pc = "aliases", !.teacher = 1]

GenerateAliasesAccumulating(f, called) ==
    IF called.pc = "raised" THEN [f EXCEPT !.alias_calls = @ + 1, !.pc = "raised"]
    ELSE [f EXCEPT !.alias_calls = @ + 1, !.aliases = @ \o called.result, !.pc = "extract"]

\* line 150, the call having ended in the frame `called`
GenerateAliases(f, called) ==
    IF called.pc = "raised" THEN [f EXCEPT !.alias_calls = @ + 1, !.pc = "raised"]
    ELSE [f EXCEPT !.alias_calls = @ + 1, !.aliases = called.result, !.pc = "extract"]

\* lines 157-158, the call having ended in the frame `called`
StoreOpinions(f, called) ==
    [f EXCEPT !.extract_calls = @ + 1,
              !.all_opinions = DictSet(@, f.teachers_list[f.teacher], called.result),
              !.teacher = @ + 1,
              !.pc = "aliases"]

\* line 162
ReturnOpinions(f) == [f EXCEPT !.pc = "done"]

MoreFiles(f) == f.pc = "parse" /\ f.file <= Len(f.EML_FILE_PATHS)
MoreTeachers(f) == f.pc = "aliases" /\ f.teacher <= Len(f.teachers_list)

AliasCallOfAlone(f) ==
    AliasCallFrame(f.teachers_list[f.teacher], <<f.teachers_list[f.teacher]>>,
                   f.client, f.OPENAI_API_KEY)

\* the call of line 150 for the current teacher, at its entry
AliasCallOf(f) ==
    AliasCallFrame(f.teachers_list[f.teacher], f.teachers_list, f.client, f.OPENAI_API_KEY)

ExtractCallOfNameOnly(f) ==
    ExtractCall(f.teachers_list[f.teacher], f.eml_contents, DefaultWindow, None)

\* the call of line 157 for the current teacher, at its entry
ExtractCallOf(f) ==
    ExtractCall(f.teachers_list[f.teacher], f.eml_contents, DefaultWindow, Some(f.aliases))

---------------------------------------------------------------------------
(* Inputs of the Evidence Aggregator                                       *)

MaxTeachers == 3    \* names of the roster
MaxFiles == 2       \* paths of EML_FILE_PATHS

RosterPool == { <<"a","b">>, <<"b">> }

\* no path, and the path of a message file
PathPool == { <<>>, <<"f">> }

\* message files: unreadable, blank, two with mentions; stand-ins returning
\* whitespace only and a document
FilePool ==
    { Unreadable,
      Body(<<" ","\n","\t">>),
      Body(<<" ","a","b","\n","\n","b"," ">>),
      Body(<<"A","B"," ","a","\n","a">>),
      Patched(<<" ","\n">>),
      Patched(<<"a"," ","b">>) }

AggResponses == { <<"a">>, <<"a",","," ","B">>, <<"n","o","n","e">> }

AggBackendOutcomes == {Raises} \cup { Content(s) : s \in AggResponses }

AggregateInputs ==
    [ teachers_list : SeqsUpTo(RosterPool, MaxTeachers),
      EML_FILE_PATHS : SeqsUpTo(PathPool, MaxFiles),
      client : {None, Some(<<"k">>)},
      OPENAI_API_KEY : {Some(<<"k">>)} ]

---------------------------------------------------------------------------
(* The call as a state machine.                                            *)

AggInit ==
    /\ \E in \in AggregateInputs :
         aggregate = AggregateCall(in.teachers_list, in.EML_FILE_PATHS, in.client,
                                   in.OPENAI_API_KEY)
    /\ extract = Idle
    /\ aliasgen = Idle
    /\ parse = Idle
    /\ message = Idle
    /\ excel = Idle
    /\ awards = Idle

AggStart ==
    /\ aggregate.pc = "start"
    /\ aggregate' = StartAggregate(aggregate)
    /\ UNCHANGED <<extract, aliasgen, parse, message, excel, awards>>

AggParseFile ==
    /\ MoreFiles(aggregate)
    /\ \E file \in FilePool : aggregate' = ParseFile(aggregate, file)
    /\ UNCHANGED <<extract, aliasgen, parse, message, excel, awards>>

AggFilter ==
    /\ aggregate.pc = "parse"
    /\ ~MoreFiles(aggregate)
    /\ aggregate' = FilterContents(aggregate)
    /\ UNCHANGED <<extract, aliasgen, parse, message, excel, awards>>

\* the Alias Generator runs to its end within the step
AggAliases ==
    /\ MoreTeachers(aggregate)
    /\ \E out \in AggBackendOutcomes :
         /\ aliasgen' = AliasRun(AliasCallOf(aggregate), out)
         /\ aggregate' = GenerateAliases(aggregate, aliasgen')
    /\ UNCHANGED <<extract, parse, message, excel, awards>>

\* the Mention Scanner runs to its end within the step
AggExtract ==
    /\ aggregate.pc = "extract"
    /\ extract' = ExtractRun(ExtractCallOf(aggregate))
    /\ aggregate' = StoreOpinions(aggregate, extract')
    /\ UNCHANGED <<aliasgen, parse, message, excel, awards>>

AggReturn ==
    /\ aggregate.pc = "aliases"
    /\ ~MoreTeachers(aggregate)
    /\ aggregate' = ReturnOpinions(aggregate)
    /\ UNCHANGED <<extract, aliasgen, parse, message, excel, awards>>

AggNext ==
    AggStart \/ AggParseFile \/ AggFilter \/ AggAliases \/ AggExtract \/ AggReturn

AggSpec == AggInit /\ [][AggNext]_vars

---------------------------------------------------------------------------
(* Properties of the Evidence Aggregator                                   *)

AggReturned == aggregate.pc = "done"

\* s has nothing but whitespace in it
Blank(s) == \A k \in 1..Len(s) : IsSpace(s[k])

NoFilesConfigured == aggregate.EML_FILE_PATHS = <<>>

\* the corpus is empty: no file is configured, or every parsed document is
\* empty or whitespace only
EmptyCorpus ==
    \/ NoFilesConfigured
    \/ \A d \in 1..Len(aggregate.parsed) : Blank(aggregate.parsed[d])

RosterNames == { aggregate.teachers_list[t] : t \in 1..Len(aggregate.teachers_list) }

\* the scan of line 157 has returned and its result is stored
ScanStored == aggregate.pc \in {"aliases", "done"} /\ extract.pc = "done"

\* C11: from line 131 on, and so at the return, the keys of the map are exactly
\* the distinct names of the roster as written, one entry for a name the roster
\* has several times; every value is a list, the one of the last subject
\* scanned being what its scan returned, [] when it found nothing.
C11_Totality ==
    /\ aggregate.pc \notin {"idle", "start"} =>
         /\ DOMAIN aggregate.all_opinions = RosterNames
         /\ \A name \in RosterNames :
              DOMAIN aggregate.all_opinions[name] = 1..Len(aggregate.all_opinions[name])
    /\ ScanStored => aggregate.all_opinions[extract.teacher_name] = extract.result
    /\ (ScanStored /\ extract.mentions = {}) =>
         aggregate.all_opinions[extract.teacher_name] = <<>>

\* a roster naming one subject twice and another once, scanned over a corpus
\* with documents in it: one of the two names has evidence, the other has none
C11_Witness ==
    /\ AggReturned
    /\ Len(aggregate.teachers_list) = 3
    /\ Cardinality(DOMAIN aggregate.all_opinions) = 2
    /\ aggregate.extract_calls = 3
    /\ extract.mentions = {}
    /\ aggregate.all_opinions[extract.teacher_name] = <<>>
    /\ \E name \in RosterNames : aggregate.all_opinions[name] # <<>>

\* the alias call of the subject last scanned found no alias because it failed:
\* no backend, a backend call that raised, or content nothing can be made of
AliasCallFailed ==
    /\ aliasgen.pc = "done"
    /\ \/ aliasgen.calls = 0
       \/ BackendRaised
       \/ GotContent /\ Unusable(RawContent)

\* what the alias call of the subject last scanned returns when the backend is
\* there and answers with out
AliasesHad(out) ==
    AliasRun(AliasCallFrame(extract.teacher_name, aggregate.teachers_list,
                            Some(<<"k">>), Some(<<"k">>)), out).result

\* the parsed documents, document d being what `file` gives
Reparsed(d, file) == [aggregate.parsed EXCEPT ![d] = ParseEmlContent(file)]

\* the documents of the corpus that gave nothing
FailedDocuments == { d \in 1..Len(aggregate.parsed) : Blank(aggregate.parsed[d]) }

Snippets(teacher_name, eml_texts, teacher_aliases) ==
    Range(ExtractOpinions(teacher_name, eml_texts, DefaultWindow, Some(teacher_aliases)))

\* the evidence stored for the subject last scanned is within what any answer
\* of the backend would have given when its alias call failed, and within what
\* the corpus would have given had a document that gave nothing given something
FailureOnlyReduces ==
    ScanStored =>
      /\ Range(extract.result) = Range(aggregate.all_opinions[extract.teacher_name])
      /\ AliasCallFailed =>
           \A out \in AggBackendOutcomes :
               Range(extract.result) \subseteq
                   Snippets(extract.teacher_name, aggregate.eml_contents, AliasesHad(out))
      /\ \A d \in FailedDocuments : \A file \in FilePool :
           Range(extract.result) \subseteq
               Snippets(extract.teacher_name, KeepWithContent(Reparsed(d, file)),
                        aggregate.aliases)

NeverRaises == aggregate.pc # "raised" /\ aliasgen.pc # "raised"

\* a step of the call can be taken: the guard of one of its actions holds
CanStep ==
    \/ aggregate.pc = "start"
    \/ MoreFiles(aggregate)
    \/ aggregate.pc = "parse" /\ ~MoreFiles(aggregate)
    \/ MoreTeachers(aggregate)
    \/ aggregate.pc = "extract"
    \/ aggregate.pc = "aliases" /\ ~MoreTeachers(aggregate)

\* a bound on the steps left to the return: the files and the subjects still
\* to handle, two steps for a subject, and the steps between the loops
StepsLeft ==
    IF AggReturned THEN 0
    ELSE 1 + (Len(aggregate.EML_FILE_PATHS) + 1 - aggregate.file)
           + 2 * (Len(aggregate.teachers_list) + 1 - aggregate.teacher)
           + (IF aggregate.pc = "start" THEN 1 ELSE 0)
           + (IF aggregate.pc \in {"start", "parse"} THEN 1 ELSE 0)
           + (IF aggregate.pc = "aliases" THEN 1 ELSE 0)

\* C12: whatever the roster, the outcomes of the backend calls (no backend, a
\* call that raises, unusable content, a list of aliases) and the outcomes of
\* the parses (failure, empty document, text), the aggregator never ends in an
\* exception and does return its map: until the return a step can always be
\* taken and every step brings the return nearer; a failure only takes
\* evidence away.
C12_NoFatalError ==
    /\ [](NeverRaises /\ (AggReturned \/ CanStep) /\ StepsLeft >= 0 /\ FailureOnlyReduces)
    /\ [][StepsLeft' < StepsLeft]_vars

\* the return after a file that could not be read and a backend call that
\* raised: the last subject has no evidence, which an answer of the backend
\* would have given it
C12_Witness ==
    /\ AggReturned
    /\ \E d \in FailedDocuments : aggregate.parsed[d] = <<>>
    /\ ScanStored
    /\ BackendRaised
    /\ aggregate.all_opinions[extract.teacher_name] = <<>>
    /\ \E out \in AggBackendOutcomes :
         Snippets(extract.teacher_name, aggregate.eml_contents, AliasesHad(out)) # {}

\* the paths of EML_FILE_PATHS that are parsed: the non-empty ones
PathsToParse ==
    { k \in 1..Len(aggregate.EML_FILE_PATHS) : aggregate.EML_FILE_PATHS[k] # <<>> }

\* the loop over the subjects has been entered
InLoop ==
    \/ aggregate.pc \in {"aliases", "extract"}
    \/ AggReturned /\ aggregate.eml_contents # <<>>

\* the subject being handled, and the one handled last
Subject == aggregate.teachers_list[aggregate.teacher]
LastSubject == aggregate.teachers_list[aggregate.teacher - 1]

\* C16: with a corpus that is not empty, every file is parsed once and before
\* any subject is handled; the subjects are handled in roster order, each roster
\* entry getting one alias call, made with that subject and the whole roster,
\* then its scan, made with those aliases over the corpus, before the alias
\* call of the next entry; at the return there have been as many alias calls
\* as the roster has entries.
C16_SequentialProtocol ==
    /\ [](InLoop =>
            /\ aggregate.file = Len(aggregate.EML_FILE_PATHS) + 1
            /\ aggregate.parse_calls = Cardinality(PathsToParse)
            /\ Len(aggregate.parsed) = aggregate.parse_calls)
    /\ [](~InLoop => aggregate.alias_calls = 0 /\ aggregate.extract_calls = 0)
    /\ [](aggregate.pc = "aliases" =>
            /\ aggregate.alias_calls = aggregate.teacher - 1
            /\ aggregate.extract_calls = aggregate.teacher - 1)
    /\ [](aggregate.pc = "extract" =>
            /\ aggregate.alias_calls = aggregate.teacher
            /\ aggregate.extract_calls = aggregate.teacher - 1
            /\ aliasgen.pc = "done"
            /\ aliasgen.teacher_name = Subject
            /\ aliasgen.all_teacher_names = aggregate.teachers_list
            /\ aggregate.aliases = aliasgen.result)
    /\ []((aggregate.pc = "aliases" /\ aggregate.teacher > 1) =>
            /\ extract.pc = "done"
            /\ extract.teacher_name = LastSubject
            /\ aliasgen.teacher_name = LastSubject
            /\ extract.teacher_aliases = Some(aliasgen.result)
            /\ extract.eml_texts = aggregate.eml_contents
            /\ extract.context_window_lines = DefaultWindow)
    /\ []((AggReturned /\ aggregate.eml_contents # <<>>) =>
            /\ aggregate.alias_calls = Len(aggregate.teachers_list)
            /\ aggregate.extract_calls = Len(aggregate.teachers_list))
    /\ [][ /\ InLoop => /\ aggregate'.parse_calls = aggregate.parse_calls
                        /\ aggregate'.eml_contents = aggregate.eml_contents
           /\ aggregate'.alias_calls \in {aggregate.alias_calls, aggregate.alias_calls + 1}
           /\ aggregate'.extract_calls \in {aggregate.extract_calls, aggregate.extract_calls + 1}
           /\ aggregate'.alias_calls - aggregate'.extract_calls \in {0, 1} ]_vars

\* the return after three subjects were handled over a corpus of two files
C16_Witness ==
    /\ AggReturned
    /\ aggregate.parse_calls = 2
    /\ Len(aggregate.eml_contents) = 2
    /\ Len(aggregate.teachers_list) = 3
    /\ aggregate.alias_calls = 3
    /\ aggregate.extract_calls = 3
    /\ aliasgen.calls = 1
    /\ extract.teacher_name = aggregate.teachers_list[3]

\* the parsed documents without the empty and the whitespace-only ones, in the
\* order of the configured files
CorpusWithContent ==
    LET kept == { d \in 1..Len(aggregate.parsed) : ~Blank(aggregate.parsed[d]) }
        RECURSIVE InOrder(_)
        InOrder(S) ==
            IF S = {} THEN <<>>
            ELSE LET d == CHOOSE x \in S : \A y \in S : x <= y
                 IN  <<aggregate.parsed[d]>> \o InOrder(S \ {d})
    IN  InOrder(kept)

\* C22: with a corpus that is not empty, what the map holds for a subject is
\* what the scanner returns for that subject over the parsed documents that
\* have content, in file order, with a window of 2 lines and with the aliases
\* that the alias call made for this subject and the whole roster returned,
\* unchanged; the entry of a subject changes only when its own scan is stored.
C22_AddsNothing ==
    /\ []((aggregate.pc \in {"aliases", "done"} /\ aggregate.teacher > 1) =>
            /\ aliasgen.pc = "done"
            /\ aliasgen.teacher_name = LastSubject
            /\ aliasgen.all_teacher_names = aggregate.teachers_list
            /\ aggregate.all_opinions[LastSubject] =
                   ExtractOpinions(LastSubject, CorpusWithContent, 2, Some(aliasgen.result)))
    /\ [][\A name \in DOMAIN aggregate.all_opinions :
              (aggregate.pc # "extract" \/ name # Subject) =>
                  aggregate'.all_opinions[name] = aggregate.all_opinions[name]]_vars

\* the return over two files of which one has no content: the last
\* subject has evidence that it owes to its aliases
C22_Witness ==
    /\ AggReturned
    /\ aggregate.teacher > 1
    /\ Len(aggregate.parsed) = 2
    /\ Len(aggregate.eml_contents) = 1
    /\ aliasgen.result # <<>>
    /\ aggregate.all_opinions[LastSubject] # <<>>
    /\ ExtractOpinions(LastSubject, CorpusWithContent, 2, None) = <<>>

---------------------------------------------------------------------------
(* The loop of lines 147-158 with its subjects taken in any order and the  *)
(* steps of different subjects interleaved.  What the loop shares between  *)
(* subjects is teachers_list, eml_contents and the map; teacher_name,      *)
(* aliases and opinions belong to one subject.  The backend answers as a   *)
(* function of the subject.                                                *)

\* the frame of get_all_professors_opinions at line 146
AtLoop(teachers_list, eml_contents, client, OPENAI_API_KEY) ==
    [ AggregateCall(teachers_list, <<>>, client, OPENAI_API_KEY) EXCEPT
        !.pc = "aliases",
        !.all_opinions = NoOpinions(teachers_list),
        !.parsed = eml_contents,
        !.eml_contents = eml_contents,
        !.teacher = 1 ]

\* line 150 for the subject at position t, the backend answering oracle[name]
AliasStepOf(f, t, oracle) ==
    LET own == [f EXCEPT !.teacher = t, !.pc = "aliases"]
    IN  GenerateAliases(own, AliasRun(AliasCallOf(own), oracle[f.teachers_list[t]]))

\* lines 157-158 for the subject at position t, its aliases being `aliases`
ScanStepOf(f, t, aliases) ==
    LET own == [f EXCEPT !.teacher = t, !.aliases = aliases, !.pc = "extract"]
    IN  StoreOpinions(own, ExtractRun(ExtractCallOf(own)))

RECURSIVE SequentialPass(_, _)
\* lines 147-162 as the code runs them: one subject after the other
SequentialPass(f, oracle) ==
    IF MoreTeachers(f)
    THEN SequentialPass(ScanStepOf(AliasStepOf(f, f.teacher, oracle), f.teacher,
                                   AliasStepOf(f, f.teacher, oracle).aliases), oracle)
    ELSE ReturnOpinions(f)

ReorderDocs == { <<"a","b","\n","b">>, <<"A","B"," ","a","\n","a">> }

ReorderInputs ==
    [ teachers_list : SeqsUpTo(RosterPool, MaxTeachers),
      eml_contents : SeqsUpTo(ReorderDocs, MaxFiles) \ {<<>>},
      oracle : [RosterPool -> AggBackendOutcomes] ]

ReorderInit ==
    /\ \E in \in ReorderInputs :
         aggregate =
           [ pc |-> "subjects",
             at_loop |-> AtLoop(in.teachers_list, in.eml_contents, Some(<<"k">>), Some(<<"k">>)),
             oracle |-> in.oracle,
             shared |-> AtLoop(in.teachers_list, in.eml_contents, Some(<<"k">>), Some(<<"k">>)),
             stage |-> [ t \in 1..Len(in.teachers_list) |-> "todo" ],
             aliases_of |-> [ t \in 1..Len(in.teachers_list) |-> <<>> ] ]
    /\ extract = Idle
    /\ aliasgen = Idle
    /\ parse = Idle
    /\ message = Idle
    /\ excel = Idle
    /\ awards = Idle

\* some subject not yet handled gets its aliases
ReorderAliases ==
    /\ aggregate.pc = "subjects"
    /\ \E t \in DOMAIN aggregate.stage :
         /\ aggregate.stage[t] = "todo"
         /\ aggregate' =
              [ aggregate EXCEPT
                  !.stage[t] = "aliased",
                  !.aliases_of[t] = AliasStepOf(aggregate.shared, t, aggregate.oracle).aliases,
                  !.shared.alias_calls = @ + 1 ]
    /\ UNCHANGED <<extract, aliasgen, parse, message, excel, awards>>

\* some subject that has its aliases is scanned for and its snippets stored
ReorderExtract ==
    /\ aggregate.pc = "subjects"
    /\ \E t \in DOMAIN aggregate.stage :
         /\ aggregate.stage[t] = "aliased"
         /\ aggregate' =
              [ aggregate EXCEPT
                  !.stage[t] = "stored",
                  !.shared.all_opinions =
                      ScanStepOf(aggregate.shared, t, aggregate.aliases_of[t]).all_opinions,
                  !.shared.extract_calls = @ + 1 ]
    /\ UNCHANGED <<extract, aliasgen, parse, message, excel, awards>>

ReorderReturn ==
    /\ aggregate.pc = "subjects"
    /\ \A t \in DOMAIN aggregate.stage : aggregate.stage[t] = "stored"
    /\ aggregate' = [aggregate EXCEPT !.pc = "done"]
    /\ UNCHANGED <<extract, aliasgen, parse, message, excel, awards>>

ReorderNext == ReorderAliases \/ ReorderExtract \/ ReorderReturn

ReorderSpec == ReorderInit /\ [][ReorderNext]_vars

\* the aliases of a subject as the backend's answer for it gives them
OwnAliases(name) ==
    AliasRun(AliasCallFrame(name, aggregate.at_loop.teachers_list,
                            aggregate.at_loop.client, aggregate.at_loop.OPENAI_API_KEY),
             aggregate.oracle[name]).result

\* C15: the backend answering as a function of the subject, the map built with
\* the subjects taken in any order and their alias and scan steps interleaved
\* is the map of the sequential pass, and so is the map of the sequential pass
\* that of each subject scanned for with its own aliases alone: no entry
\* depends on the aliases or the snippets of another subject.
C15_SubjectsIndependent ==
    aggregate.pc = "done" =>
      /\ aggregate.shared.all_opinions =
           SequentialPass(aggregate.at_loop, aggregate.oracle).all_opinions
      /\ \A name \in Range(aggregate.at_loop.teachers_list) :
           SequentialPass(aggregate.at_loop, aggregate.oracle).all_opinions[name] =
             ExtractOpinions(name, aggregate.at_loop.eml_contents, DefaultWindow,
                             Some(OwnAliases(name)))
      /\ aggregate.shared.alias_calls = Len(aggregate.at_loop.teachers_list)

\* three subjects, two of them different, whose aliases differ and who have
\* different evidence
C15_Witness ==
    /\ aggregate.pc = "done"
    /\ Len(aggregate.stage) = 3
    /\ \E m, n \in Range(aggregate.at_loop.teachers_list) :
         /\ OwnAliases(m) # <<>>
         /\ OwnAliases(m) # OwnAliases(n)
         /\ aggregate.shared.all_opinions[m] # aggregate.shared.all_opinions[n]
         /\ aggregate.shared.all_opinions[n] # <<>>

---------------------------------------------------------------------------
(* The Normalizer, parse_eml_content.  A message file is what open() and   *)
(* the parser give for it: it cannot be opened or parsed, or it is a       *)
(* message, multipart or not, whose parts are the ones walk() yields, in   *)
(* that order.  A part has a content type, an optional Content-Disposition *)
(* header and a payload; of the payload the model keeps what decoding it   *)
(* gives.                                                                  *)

\* sub in s, for strings
Contains(s, sub) ==
    \E p \in 0..(Len(s) - Len(sub)) : \A k \in 1..Len(sub) : s[p + k] = sub[k]

\* str(x) of an optional header value
Str(opt) == IF opt = None THEN <<"N","o","n","e">> ELSE opt[1]

AttachmentWord == <<"a","t","t","a","c","h","m","e","n","t">>
TextPlain == <<"t","e","x","t","/","p","l","a","i","n">>
TextHtml == <<"t","e","x","t","/","h","t","m","l">>

RECURSIVE GetTextFrom(_, _)
\* html from its first character on, inside a tag or not
GetTextFrom(html, in_tag) ==
    IF html = <<>> THEN <<>>
    ELSE IF Head(html) = "<" THEN GetTextFrom(Tail(html), TRUE)
    ELSE IF Head(html) = ">" /\ in_tag THEN GetTextFrom(Tail(html), FALSE)
    ELSE IF in_tag THEN GetTextFrom(Tail(html), TRUE)
    ELSE <<Head(html)>> \o GetTextFrom(Tail(html), FALSE)

\* BeautifulSoup(html, 'html.parser').get_text(): the text outside the tags
GetText(html) == GetTextFrom(html, FALSE)

\* payloads, as get_payload(decode=True) gives them: bytes, of which decoding
\* with the declared charset, with utf-8 and with latin-1 gives a text or
\* fails; None; a str; bytes with a charset Python does not know
Bytes(declared, utf8, latin1) ==
    [kind |-> "bytes", declared |-> declared, utf8 |-> utf8, latin1 |-> latin1]
NoPayload == [kind |-> "none", declared |-> None, utf8 |-> None, latin1 |-> None]
StrPayload(s) == [kind |-> "str", declared |-> None, utf8 |-> None, latin1 |-> Some(s)]
UnknownCharset(s) ==
    [kind |-> "unknown_charset", declared |-> None, utf8 |-> Some(s), latin1 |-> Some(s)]

\* payload.decode(charset): the text, or the exception raised
Decode(payload) ==
    CASE payload.kind = "unknown_charset" -> [raised |-> "LookupError", text |-> <<>>]
      [] payload.kind \in {"none", "str"} -> [raised |-> "AttributeError", text |-> <<>>]
      [] payload.declared = None          -> [raised |-> "UnicodeDecodeError", text |-> <<>>]
      [] OTHER                            -> [raised |-> "", text |-> payload.declared[1]]

\* lines 33-37, 48-52, 75-79: utf-8, then latin-1, then nothing (None)
DecodeFallback(payload) ==
    IF payload.utf8 # None THEN payload.utf8
    ELSE payload.latin1

\* lines 26-39: what a text/plain part adds to body
PlainText(payload) ==
    IF Decode(payload).raised = "" THEN Decode(payload).text
    ELSE IF payload.kind = "bytes"
         THEN (IF DecodeFallback(payload) # None THEN DecodeFallback(payload)[1] ELSE <<>>)
    ELSE IF payload.kind = "str" THEN payload.latin1[1]
    ELSE <<>>

\* lines 40-58: what a text/html part adds to body
HtmlText(payload) ==
    IF Decode(payload).raised = "" THEN GetText(Decode(payload).text)
    ELSE IF payload.kind = "bytes"
         THEN (IF DecodeFallback(payload) # None /\ DecodeFallback(payload)[1] # <<>>
               THEN GetText(DecodeFallback(payload)[1]) ELSE <<>>)
    ELSE IF payload.kind = "str" THEN GetText(payload.latin1[1])
    ELSE <<>>

\* lines 62-90: the body of a message that is not multipart
SingleBody(part) ==
    IF Decode(part.payload).raised = ""
    THEN (IF part.content_type = TextHtml THEN GetText(Decode(part.payload).text)
          ELSE Decode(part.payload).text)
    ELSE IF part.payload.kind = "bytes"
         THEN LET decoded_payload ==
                      IF DecodeFallback(part.payload) # None
                      THEN DecodeFallback(part.payload)[1] ELSE <<>>
              IN  IF part.content_type = TextHtml /\ decoded_payload # <<>>
                  THEN GetText(decoded_payload) ELSE decoded_payload
    ELSE IF part.payload.kind = "str"
         THEN (IF part.content_type = TextHtml THEN GetText(part.payload.latin1[1])
               ELSE part.payload.latin1[1])
    ELSE <<>>

\* the exceptions the handlers of lines 31, 47 and 74 catch
CaughtInside(raised) == raised \in {"", "UnicodeDecodeError", "AttributeError"}

\* line 23
SkippedAsAttachment(part) == Contains(Str(part.disposition), AttachmentWord)

Part(content_type, disposition, payload) ==
    [content_type |-> content_type, disposition |-> disposition, payload |-> payload]

CannotOpen == [kind |-> "cannot_open", multipart |-> FALSE, parts |-> <<>>]
Message(multipart, parts) == [kind |-> "message", multipart |-> multipart, parts |-> parts]

\* the frame of a call at its entry
ParseCall(file) ==
    [ pc |-> "start", file |-> file, body |-> <<>>, part |-> 0, result |-> <<>> ]

\* except Exception as e: ... return "", lines 93-95
OnParseError(f) == [f EXCEPT !.pc = "done", !.result = <<>>]

\* lines 13-17
OpenAndParse(f) ==
    IF f.file.kind = "cannot_open" THEN OnParseError(f)
    ELSE IF f.file.multipart THEN [f EXCEPT !.pc = "walk", !.part = 1]
    ELSE [f EXCEPT !.pc = "single"]

\* lines 18-59, one part of msg.walk()
WalkPart(f) ==
    LET part == f.file.parts[f.part]
        text == IF part.content_type = TextPlain THEN PlainText(part.payload)
                ELSE IF part.content_type = TextHtml THEN HtmlText(part.payload)
                ELSE <<>>
    IN  IF SkippedAsAttachment(part) THEN [f EXCEPT !.part = @ + 1]
        ELSE IF /\ part.content_type \in {TextPlain, TextHtml}
                /\ ~CaughtInside(Decode(part.payload).raised)
             THEN OnParseError(f)
        ELSE [f EXCEPT !.body = @ \o text \o <<"\n">>, !.part = @ + 1]

\* lines 61-90
SinglePart(f) ==
    IF ~CaughtInside(Decode(f.file.parts[1].payload).raised) THEN OnParseError(f)
    ELSE [f EXCEPT !.body = SingleBody(f.file.parts[1]), !.pc = "join"]

\* the end of the loop of line 18
EndWalk(f) == [f EXCEPT !.pc = "join"]

\* line 92
JoinLines(f) == [f EXCEPT !.pc = "done", !.result = NormalizeBody(f.body)]

MoreParts(f) == f.pc = "walk" /\ f.part <= Len(f.file.parts)

RECURSIVE ParseRun(_)
\* the call run to its return
ParseRun(f) ==
    CASE f.pc = "start"  -> ParseRun(OpenAndParse(f))
      [] MoreParts(f)    -> ParseRun(WalkPart(f))
      [] f.pc = "walk"   -> ParseRun(EndWalk(f))
      [] f.pc = "single" -> ParseRun(SinglePart(f))
      [] f.pc = "join"   -> ParseRun(JoinLines(f))
      [] OTHER           -> f

---------------------------------------------------------------------------
(* Inputs of the Normalizer                                                *)

MaxParts == 2    \* parts of a multipart message

\* a text of lines with blanks around and between them, a text that is not
\* utf-8, markup
PaddedText == <<" ","a","b","\n","\n","\t","\n","b"," ">>
Latin1Text == <<"a","\r","\n"," ","b">>
Markup == <<"<","p",">","a","<","/","p",">","\n","<","p",">"," ","b","<","/","p",">">>

PartPool ==
    { Part(TextPlain, None, Bytes(Some(PaddedText), Some(PaddedText), Some(PaddedText))),
      Part(TextPlain, Some(<<"i","n","l","i","n","e">>), Bytes(None, None, Some(Latin1Text))),
      Part(TextPlain, Some(<<"a","t","t","a","c","h","m","e","n","t",";"," ","f","i","l","e","n","a","m","e","=","f">>), Bytes(Some(<<"x">>), Some(<<"x">>), Some(<<"x">>))),
      Part(TextPlain, Some(<<"A","T","T","A","C","H","M","E","N","T",";"," ","f","i","l","e","n","a","m","e","=","f">>), Bytes(Some(<<"x">>), Some(<<"x">>), Some(<<"x">>))),
      Part(<<"a","p","p","l","i","c","a","t","i","o","n","/","p","d","f">>, Some(<<"a","t","t","a","c","h","m","e","n","t",";"," ","f","i","l","e","n","a","m","e","=","f">>), Bytes(None, None, Some(<<"y">>))),
      Part(TextHtml, None, Bytes(Some(Markup), Some(Markup), Some(Markup))),
      Part(TextHtml, None, StrPayload(Markup)),
      Part(TextPlain, None, UnknownCharset(<<"a">>)),
      Part(<<"m","u","l","t","i","p","a","r","t","/","m","i","x","e","d">>, None, NoPayload),
      Part(TextPlain, None, NoPayload) }

FileInputs ==
    {CannotOpen}
    \cup { Message(FALSE, <<part>>) : part \in PartPool }
    \cup { Message(TRUE, parts) : parts \in SeqsUpTo(PartPool, MaxParts) }

---------------------------------------------------------------------------
(* The call as a state machine.                                            *)

ParseInit ==
    /\ \E file \in FileInputs : parse = ParseCall(file)
    /\ extract = Idle
    /\ aliasgen = Idle
    /\ aggregate = Idle
    /\ message = Idle
    /\ excel = Idle
    /\ awards = Idle

ParseOpen ==
    /\ parse.pc = "start"
    /\ parse' = OpenAndParse(parse)
    /\ UNCHANGED <<extract, aliasgen, aggregate, message, excel, awards>>

ParseWalkPart ==
    /\ MoreParts(parse)
    /\ parse' = WalkPart(parse)
    /\ UNCHANGED <<extract, aliasgen, aggregate, message, excel, awards>>

ParseEndWalk ==
    /\ parse.pc = "walk"
    /\ ~MoreParts(parse)
    /\ parse' = EndWalk(parse)
    /\ UNCHANGED <<extract, aliasgen, aggregate, message, excel, awards>>

ParseSinglePart ==
    /\ parse.pc = "single"
    /\ parse' = SinglePart(parse)
    /\ UNCHANGED <<extract, aliasgen, aggregate, message, excel, awards>>

ParseJoinLines ==
    /\ parse.pc = "join"
    /\ parse' = JoinLines(parse)
    /\ UNCHANGED <<extract, aliasgen, aggregate, message, excel, awards>>

ParseNext ==
    ParseOpen \/ ParseWalkPart \/ ParseEndWalk \/ ParseSinglePart \/ ParseJoinLines

ParseSpec == ParseInit /\ [][ParseNext]_vars

---------------------------------------------------------------------------
(* Properties of the Normalizer                                            *)

ParseReturned == parse.pc = "done"

\* the disposition type of a Content-Disposition header: what stands before
\* the first semicolon, which is read without regard to letter case
DispositionType(header) ==
    LET cuts == { k \in 1..Len(header) : header[k] = ";" } \cup {Len(header) + 1}
        end  == CHOOSE k \in cuts : \A j \in cuts : k <= j
    IN  Lower(Strip(SubSeq(header, 1, end - 1)))

\* the part is an attachment
IsAttachment(part) ==
    part.disposition # None /\ DispositionType(part.disposition[1]) = AttachmentWord

\* the message without its attachments
WithoutAttachments(file) ==
    [file EXCEPT !.parts = SelectSeq(@, LAMBDA part : ~IsAttachment(part))]

\* a text without blank lines and without whitespace at either end of a line:
\* no whitespace at its ends nor next to a line break, and no line break but \n
CleanLines(text) ==
    /\ text # <<>> => ~IsSpace(text[1]) /\ ~IsSpace(text[Len(text)])
    /\ \A k \in 1..Len(text) :
         IsLineBreak(text[k]) =>
            /\ text[k] = "\n"
            /\ k > 1 /\ ~IsSpace(text[k - 1])
            /\ k < Len(text) /\ ~IsSpace(text[k + 1])

\* the call returns a string and nothing else, a file that cannot be opened
\* giving the empty one; the text returned has clean lines
ReturnsCleanString ==
    /\ parse.pc # "raised"
    /\ ParseReturned =>
         /\ DOMAIN parse.result = 1..Len(parse.result)
         /\ CleanLines(parse.result)
    /\ (ParseReturned /\ parse.file.kind = "cannot_open") => parse.result = <<>>

\* C17: parse_eml_content always returns a string and never raises; a file that
\* cannot be opened or parsed gives the empty string; the attachments of a
\* multipart message add nothing to the text, which is the text the message
\* gives without them; the text returned has no blank line and no line that
\* begins or ends with whitespace.
C17_NormalizerContract ==
    /\ ReturnsCleanString
    /\ (ParseReturned /\ parse.file.multipart) =>
         parse.result = ParseRun(ParseCall(WithoutAttachments(parse.file))).result

---------------------------------------------------------------------------
(* The narrative generator, generate_recommendation_message.  The module   *)
(* globals client and OPENAI_API_KEY are inputs of a call, as the tests    *)
(* patch them; the backend is its outcome for the one request of a call.   *)

DecimalDigits == <<"0", "1", "2", "3", "4", "5", "6", "7", "8", "9">>

RECURSIVE Decimal(_)
\* str(n) of a natural number, as an f-string formats it
Decimal(n) ==
    IF n < 10 THEN <<DecimalDigits[n + 1]>>
    ELSE Decimal(n \div 10) \o <<DecimalDigits[(n % 10) + 1]>>

RECURSIVE RStripChar(_, _)
\* s.rstrip(c) for one character c
RStripChar(s, c) ==
    IF s = <<>> THEN s
    ELSE IF s[Len(s)] = c THEN RStripChar(SubSeq(s, 1, Len(s) - 1), c) ELSE s

titles ==
    << <<"d","r">>, <<"m","r">>, <<"m","s">>, <<"m","r","s">>, <<"p","r","o","f">>,
       <<"p","r","o","f","e","s","s","o","r">> >>

\* the name of the closing line (lines 29-44)
FirstName(teacher_name) ==
    LET parts == SplitOn(teacher_name, " ")
        first_name_part == parts[1]
        first_name ==
            IF RStripChar(Lower(first_name_part), ".") \in Range(titles) /\ Len(parts) > 1
            THEN parts[2]
            ELSE first_name_part
    IN  IF first_name = <<>> /\ Len(parts) > 0 THEN parts[Len(parts)]
        ELSE IF first_name = <<>> THEN teacher_name
        ELSE first_name

FeedbackToIncludeAll(positive_feedback) == positive_feedback

\* positive_feedback[:5]
FeedbackToInclude(positive_feedback) == Slice(positive_feedback, 0, 5)

OpinionsToIncludeRawLast(prof_opinions) ==
    Slice(prof_opinions, Max(0, Len(prof_opinions) - 3), Len(prof_opinions))

\* prof_opinions[:3]
OpinionsToIncludeRaw(prof_opinions) == Slice(prof_opinions, 0, 3)

\* " ".join(opinion.splitlines()).strip()
CleanedOpinion(opinion) == Strip(Join(<<" ">>, SplitLines(opinion)))

CleanedOpinionsForPrompt(prof_opinions) ==
    LET raw == OpinionsToIncludeRaw(prof_opinions)
    IN  [i \in 1..Len(raw) |-> CleanedOpinion(raw[i])]

\* the prompt line of the i-th selected feedback, i counted from 1
StudentLine(i, feedback) ==
    <<" "," ","-"," ","S","t","u","d","e","n","t"," ">> \o Decimal(i) \o <<":"," ","\"">> \o feedback \o <<"\"">>

\* the prompt line of the i-th selected opinion, i counted from 1
ProfessorLine(i, cleaned_opinion) ==
    <<
        " "," ","-"," ","P","r","o","f","e","s","s","o","r"," ",
        "C","o","m","m","e","n","t"," " >> \o Decimal(i) \o <<":"," ","\"">> \o cleaned_opinion \o <<"\"">>

PromptTask(teacher_name) ==
    << <<
        "T","a","s","k",":"," ","C","r","e","a","t","e"," ","a",
        " ","c","o","m","p","e","l","l","i","n","g"," ","a","n",
        "d"," ","c","o","n","c","i","s","e"," ","r","e","c","o",
        "m","m","e","n","d","a","t","i","o","n"," ","m","e","s",
        "s","a","g","e"," ","(","u","p"," ","t","o"," ","4","0",
        "0","0"," ","c","h","a","r","a","c","t","e","r","s",")",
        " ","f","o","r"," ","a"," ","t","e","a","c","h","i","n",
        "g"," ","a","w","a","r","d"," ","f","o","r"," " >>
         \o teacher_name \o <<".">>,
       <<
        "T","h","e"," ","m","e","s","s","a","g","e"," ","s","h",
        "o","u","l","d"," ","h","i","g","h","l","i","g","h","t",
        " ","t","h","e","i","r"," ","s","t","r","e","n","g","t",
        "h","s"," ","b","a","s","e","d"," ","o","n"," ","s","t",
        "u","d","e","n","t"," ","f","e","e","d","b","a","c","k",
        " ","a","n","d"," ","p","r","o","f","e","s","s","o","r",
        " ","o","p","i","n","i","o","n","s","." >>,
       <<
        "B","e","g","i","n"," ","t","h","e"," ","r","e","c","o",
        "m","m","e","n","d","a","t","i","o","n"," ","t","e","x",
        "t"," ","d","i","r","e","c","t","l","y",","," ","w","i",
        "t","h","o","u","t"," ","a","n","y"," ","p","r","e","a",
        "m","b","l","e"," ","l","i","k","e"," ","'","H","e","r",
        "e"," ","i","s"," ","t","h","e"," ","r","e","c","o","m",
        "m","e","n","d","a","t","i","o","n"," ","m","e","s","s",
        "a","g","e","'","." >>,
       <<
        "T","h","e"," ","o","v","e","r","a","l","l"," ","t","o",
        "n","e"," ","s","h","o","u","l","d"," ","b","e"," ","p",
        "o","s","i","t","i","v","e",","," ","c","e","l","e","b",
        "r","a","t","o","r","y",","," ","a","n","d"," ","p","r",
        "o","f","e","s","s","i","o","n","a","l","." >>,
       <<
        "\n","K","e","y"," ","I","n","f","o","r","m","a","t","i",
        "o","n",":" >>,
       <<
        "-"," ","T","e","a","c","h","e","r","'","s"," ","N","a",
        "m","e",":"," " >> \o teacher_name >>

PromptFeedback(positive_feedback) ==
    IF positive_feedback # <<>>
    THEN LET feedback_to_include == FeedbackToInclude(positive_feedback)
         IN  << <<
        "\n","S","t","u","d","e","n","t"," ","P","o","s","i","t",
        "i","v","e"," ","F","e","e","d","b","a","c","k"," ","(",
        "s","e","l","e","c","t","e","d"," ","q","u","o","t","e",
        "s",")",":" >> >>
             \o [i \in 1..Len(feedback_to_include) |-> StudentLine(i, feedback_to_include[i])]
    ELSE << <<
        "\n","S","t","u","d","e","n","t"," ","P","o","s","i","t",
        "i","v","e"," ","F","e","e","d","b","a","c","k",":"," ",
        "N","o"," ","s","p","e","c","i","f","i","c"," ","q","u",
        "o","t","e","s"," ","p","r","o","v","i","d","e","d",",",
        " ","b","u","t"," ","g","e","n","e","r","a","l","l","y",
        " ","p","o","s","i","t","i","v","e"," ","p","e","r","f",
        "o","r","m","a","n","c","e"," ","i","s"," ","i","m","p",
        "l","i","e","d","." >> >>

PromptOpinions(prof_opinions) ==
    IF prof_opinions # <<>>
    THEN LET cleaned == CleanedOpinionsForPrompt(prof_opinions)
         IN  << <<
        "\n","P","r","o","f","e","s","s","o","r","'","s"," ","O",
        "p","i","n","i","o","n","s","/","C","o","m","m","e","n",
        "t","s"," ","(","s","e","l","e","c","t","e","d"," ","q",
        "u","o","t","e","s",")",":" >> >>
             \o [i \in 1..Len(cleaned) |-> ProfessorLine(i, cleaned[i])]
    ELSE << <<
        "\n","P","r","o","f","e","s","s","o","r","'","s"," ","O",
        "p","i","n","i","o","n","s","/","C","o","m","m","e","n",
        "t","s",":"," ","N","o"," ","s","p","e","c","i","f","i",
        "c"," ","q","u","o","t","e","s"," ","p","r","o","v","i",
        "d","e","d","." >> >>

PromptInstructions ==
    << <<
        "\n","I","n","s","t","r","u","c","t","i","o","n","s"," ",
        "f","o","r"," ","t","h","e"," ","m","e","s","s","a","g",
        "e"," ","c","o","n","t","e","n","t",":" >>,
       <<
        "-"," ","S","y","n","t","h","e","s","i","z","e"," ","t",
        "h","e"," ","p","r","o","v","i","d","e","d"," ","f","e",
        "e","d","b","a","c","k"," ","a","n","d"," ","o","p","i",
        "n","i","o","n","s"," ","i","n","t","o"," ","a"," ","c",
        "o","h","e","r","e","n","t"," ","a","n","d"," ","i","m",
        "p","a","c","t","f","u","l"," ","r","e","c","o","m","m",
        "e","n","d","a","t","i","o","n","." >>,
       <<
        "-"," ","F","o","c","u","s"," ","o","n"," ","s","p","e",
        "c","i","f","i","c"," ","q","u","a","l","i","t","i","e",
        "s"," ","o","r"," ","a","c","h","i","e","v","e","m","e",
        "n","t","s"," ","i","f"," ","e","v","i","d","e","n","t",
        " ","f","r","o","m"," ","t","h","e"," ","i","n","f","o",
        "r","m","a","t","i","o","n","." >>,
       <<
        "-"," ","E","n","s","u","r","e"," ","t","h","e"," ","m",
        "e","s","s","a","g","e"," ","f","l","o","w","s"," ","w",
        "e","l","l"," ","a","n","d"," ","i","s"," ","e","n","g",
        "a","g","i","n","g","." >>,
       <<
        "-"," ","T","h","e"," ","m","e","s","s","a","g","e"," ",
        "i","t","s","e","l","f"," ","s","h","o","u","l","d"," ",
        "b","e"," ","t","h","e"," ","c","o","r","e"," ","c","o",
        "n","t","e","n","t",","," ","a","v","o","i","d"," ","i",
        "n","t","r","o","d","u","c","t","o","r","y"," ","o","r",
        " ","c","o","n","c","l","u","d","i","n","g"," ","p","h",
        "r","a","s","e","s"," ","n","o","t"," ","p","a","r","t",
        " ","o","f"," ","t","h","e"," ","s","p","e","c","i","f",
        "i","e","d"," ","f","i","n","a","l"," ","o","u","t","p",
        "u","t"," ","f","o","r","m","a","t","." >>,
       <<
        "-"," ","D","o"," ","N","O","T"," ","i","n","c","l","u",
        "d","e"," ","a"," ","t","i","t","l","e"," ","l","i","k",
        "e"," ","'","R","e","c","o","m","m","e","n","d","a","t",
        "i","o","n"," ","M","e","s","s","a","g","e",":","'"," ",
        "i","n"," ","y","o","u","r"," ","g","e","n","e","r","a",
        "t","e","d"," ","t","e","x","t","."," ","T","h","e"," ",
        "s","u","r","r","o","u","n","d","i","n","g"," ","t","e",
        "m","p","l","a","t","e"," ","w","i","l","l"," ","h","a",
        "n","d","l","e"," ","t","i","t","l","e","s","." >>,
       <<
        "-"," ","T","h","e"," ","g","e","n","e","r","a","t","e",
        "d"," ","t","e","x","t"," ","w","i","l","l"," ","b","e",
        " ","p","l","a","c","e","d"," ","w","i","t","h","i","n",
        " ","a"," ","t","e","m","p","l","a","t","e",","," ","s",
        "o"," ","j","u","s","t"," ","p","r","o","v","i","d","e",
        " ","t","h","e"," ","m","e","s","s","a","g","e"," ","b",
        "o","d","y","." >> >>

\* one "- "item"" line of the sources block
SourceItem(item) == <<"-"," ","\"">> \o item \o <<"\"">>

\* "\n".join(source_details_parts) (lines 105-124)
SourcesBlock(feedback_to_include, cleaned_opinions_for_prompt, prof_opinions) ==
    Join(<<"\n">>,
         << <<"-","-","-">>, <<
        "*","*","S","o","u","r","c","e","s"," ","U","s","e","d",
        " ","f","o","r"," ","G","e","n","e","r","a","t","i","o",
        "n",":","*","*" >>, <<
        "*","*","S","t","u","d","e","n","t"," ","F","e","e","d",
        "b","a","c","k",":","*","*" >> >>
         \o (IF feedback_to_include # <<>>
             THEN [i \in 1..Len(feedback_to_include) |-> SourceItem(feedback_to_include[i])]
             ELSE << <<
        "-"," ","N","o"," ","s","p","e","c","i","f","i","c"," ",
        "s","t","u","d","e","n","t"," ","f","e","e","d","b","a",
        "c","k"," ","p","r","o","v","i","d","e","d","." >> >>)
         \o << <<
        "*","*","P","r","o","f","e","s","s","o","r"," ","O","p",
        "i","n","i","o","n","s",":","*","*" >> >>
         \o (IF cleaned_opinions_for_prompt # <<>>
             THEN [i \in 1..Len(cleaned_opinions_for_prompt) |->
                      SourceItem(cleaned_opinions_for_prompt[i])]
             ELSE IF prof_opinions = <<>>
             THEN << <<
        "-"," ","N","o"," ","s","p","e","c","i","f","i","c"," ",
        "p","r","o","f","e","s","s","o","r"," ","o","p","i","n",
        "i","o","n","s"," ","p","r","o","v","i","d","e","d","." >> >>
             ELSE << <<
        "-"," ","N","o"," ","p","r","o","f","e","s","s","o","r",
        " ","o","p","i","n","i","o","n","s"," ","w","e","r","e",
        " ","i","n","c","l","u","d","e","d"," ","i","n"," ","t",
        "h","e"," ","p","r","o","m","p","t","." >> >>))

\* the two title lines every narrative starts with
Titled(teacher_name) ==
    <<"#"," ">> \o teacher_name \o <<
        "\n","\n","#"," ","R","e","c","o","m","m","e","n","d","a",
        "t","i","o","n"," ","m","e","s","s","a","g","e",":","\n",
        "\n" >>

ClosingLine(name) == <<
        "F","a","n","t","a","s","t","i","c"," ","j","o","b",",",
        " " >> \o name \o <<"!">>

\* final_output (lines 127-133)
FinalOutput(teacher_name, llm_generated_message, first_name, sources_block_content) ==
    Titled(teacher_name) \o llm_generated_message \o <<"\n", "\n">>
    \o ClosingLine(first_name) \o <<"\n", "\n">> \o sources_block_content

\* the fallback narrative of the except branch (lines 147-150)
FallbackOutput(teacher_name, e, first_name) ==
    Titled(teacher_name)
    \o <<
        "[","A","u","t","o","m","a","t","e","d"," ","g","e","n",
        "e","r","a","t","i","o","n"," ","f","a","i","l","e","d",
        " ","d","u","e"," ","t","o"," ","a","n"," ","e","r","r",
        "o","r",":"," " >> \o e
    \o <<
        "."," ","P","l","e","a","s","e"," ","r","e","v","i","e",
        "w"," ","a","v","a","i","l","a","b","l","e"," ","d","a",
        "t","a"," ","f","o","r"," " >> \o teacher_name \o <<" ","m","a","n","u","a","l","l","y",".","]">>
    \o <<"\n", "\n">> \o ClosingLine(first_name)

ClientNotInitialized == <<
        "E","r","r","o","r",":"," ","O","p","e","n","A","I"," ",
        "c","l","i","e","n","t"," ","n","o","t"," ","i","n","i",
        "t","i","a","l","i","z","e","d","."," ","C","h","e","c",
        "k"," ","A","P","I"," ","k","e","y","." >>
KeyNotConfigured == <<
        "E","r","r","o","r",":"," ","O","P","E","N","A","I","_",
        "A","P","I","_","K","E","Y"," ","i","s"," ","n","o","t",
        " ","c","o","n","f","i","g","u","r","e","d","." >>

\* str(e) of the AttributeError that None.strip() raises
NoneHasNoStrip == <<
        "'","N","o","n","e","T","y","p","e","'"," ","o","b","j",
        "e","c","t"," ","h","a","s"," ","n","o"," ","a","t","t",
        "r","i","b","u","t","e"," ","'","s","t","r","i","p","'" >>

\* the backend raises an exception whose str() is text
RaisesWith(text) == [kind |-> "raises", content |-> text]

\* the length above which the generator prints its warning
CharacterLimit == 4000

\* A call of generate_recommendation_message, at its first statement.
MessageCall(teacher_name, positive_feedback, prof_opinions, client, api_key) ==
    [ pc |-> "guards", teacher_name |-> teacher_name,
      positive_feedback |-> positive_feedback, prof_opinions |-> prof_opinions,
      client |-> client, api_key |-> api_key,
      first_name |-> <<>>, prompt_parts |-> <<>>,
      feedback_to_include |-> <<>>, cleaned_opinions_for_prompt |-> <<>>,
      full_prompt |-> None, outcome |-> None, llm_generated_message |-> <<>>,
      warned |-> FALSE, result |-> <<>> ]

CheckClientKeyFirst(f) ==
    IF f.api_key = <<>> THEN [f EXCEPT !.pc = "done", !.result = KeyNotConfigured]
    ELSE IF f.client = None THEN [f EXCEPT !.pc = "done", !.result = ClientNotInitialized]
    ELSE [f EXCEPT !.pc = "first_name"]

\* lines 23-26: without a client or a key the call returns an error text
CheckClient(f) ==
    IF f.client = None THEN [f EXCEPT !.pc = "done", !.result = ClientNotInitialized]
    ELSE IF f.api_key = <<>> THEN [f EXCEPT !.pc = "done", !.result = KeyNotConfigured]
    ELSE [f EXCEPT !.pc = "first_name"]

\* lines 28-44
ExtractFirstName(f) ==
    [f EXCEPT !.pc = "prompt", !.first_name = FirstName(f.teacher_name)]

\* lines 46-86
BuildPrompt(f) ==
    LET prompt_parts == PromptTask(f.teacher_name)
                        \o PromptFeedback(f.positive_feedback)
                        \o PromptOpinions(f.prof_opinions)
                        \o PromptInstructions
    IN  [f EXCEPT !.pc = "call",
                  !.prompt_parts = prompt_parts,
                  !.feedback_to_include =
                      IF f.positive_feedback # <<>>
                      THEN FeedbackToInclude(f.positive_feedback) ELSE <<>>,
                  !.cleaned_opinions_for_prompt =
                      IF f.prof_opinions # <<>>
                      THEN CleanedOpinionsForPrompt(f.prof_opinions) ELSE <<>>,
                  !.full_prompt = Some(Join(<<"\n">>, prompt_parts))]

\* lines 143-150: any exception of the try block gives the fallback narrative
OnApiError(f, e) ==
    [f EXCEPT !.pc = "done",
              !.result = FallbackOutput(f.teacher_name, e, f.first_name)]

\* lines 92-102: the request, and the strip() of the answer's content
CreateCompletion(f, outcome) ==
    LET g == [f EXCEPT !.outcome = Some(outcome)]
    IN  IF outcome.kind = "raises" THEN OnApiError(g, outcome.content)
        ELSE IF outcome.kind = "no_content" THEN OnApiError(g, NoneHasNoStrip)
        ELSE [g EXCEPT !.pc = "format",
                       !.llm_generated_message = Strip(outcome.content)]

\* lines 104-141
FormatOutput(f) ==
    LET sources_block_content ==
            SourcesBlock(f.feedback_to_include, f.cleaned_opinions_for_prompt,
                         f.prof_opinions)
        final_output ==
            FinalOutput(f.teacher_name, f.llm_generated_message, f.first_name,
                        sources_block_content)
    IN  [f EXCEPT !.pc = "done",
                  !.warned = Len(final_output) > CharacterLimit,
                  !.result = final_output]

---------------------------------------------------------------------------
(* Calls of the narrative generator: a teacher name with or without a      *)
(* title, the first n of a list of distinct feedback strings and of a list *)
(* of opinions with line breaks in them, and a backend that answers,       *)
(* answers without content, or raises.                                     *)

MaxFeedback == 6
MaxOpinions == 4

TeacherNames ==
    { <<"D","r","."," ","A","P","I","E","r","r","o","r">>, <<"D","r","."," ","T","e","s","t">>, <<"A","l"," ","B">>, <<"P","r","o","f">>,
      <<"D","r","."," "," ","X">>, <<>> }

\* the k-th feedback string of the list
FeedbackNo(k) == <<"f">> \o Decimal(k)

\* the k-th opinion of the list: a line break inside, at the end, or none
OpinionNo(k) ==
    CASE k % 4 = 1 -> <<"o">> \o Decimal(k) \o <<"\n", "p">>
      [] k % 4 = 2 -> <<"o">> \o Decimal(k) \o <<"\r", "\n", "p", "\n">>
      [] k % 4 = 3 -> <<"\n", "o">> \o Decimal(k) \o <<" ", "\n", "\n", "p", " ">>
      [] OTHER -> <<"o">> \o Decimal(k)

FeedbackLists == { [k \in 1..n |-> FeedbackNo(k)] : n \in 0..MaxFeedback }
OpinionLists == { [k \in 1..n |-> OpinionNo(k)] : n \in 0..MaxOpinions }

ApiError == <<
        "T","e","s","t"," ","A","P","I"," ","c","o","n","n","e",
        "c","t","i","o","n"," ","e","r","r","o","r" >>

MessageOutcomes ==
    { Content(<<" ","G","e","n","e","r","a","t","e","d","."," ","\n">>), Content(<<>>), NoContent, RaisesWith(ApiError) }

MessageInputs ==
    { MessageCall(n, fb, ops, c, k) :
        n \in TeacherNames, fb \in FeedbackLists, ops \in OpinionLists,
        c \in {None, Some("client")}, k \in {<<>>, <<"k">>} }

MessageInit ==
    /\ message \in MessageInputs
    /\ extract = Idle
    /\ aliasgen = Idle
    /\ aggregate = Idle
    /\ parse = Idle
    /\ excel = Idle
    /\ awards = Idle

MessageGuards ==
    /\ message.pc = "guards"
    /\ message' = CheckClient(message)
    /\ UNCHANGED <<extract, aliasgen, aggregate, parse, excel, awards>>

MessageFirstName ==
    /\ message.pc = "first_name"
    /\ message' = ExtractFirstName(message)
    /\ UNCHANGED <<extract, aliasgen, aggregate, parse, excel, awards>>

MessagePrompt ==
    /\ message.pc = "prompt"
    /\ message' = BuildPrompt(message)
    /\ UNCHANGED <<extract, aliasgen, aggregate, parse, excel, awards>>

MessageCallBackend ==
    /\ message.pc = "call"
    /\ \E outcome \in MessageOutcomes : message' = CreateCompletion(message, outcome)
    /\ UNCHANGED <<extract, aliasgen, aggregate, parse, excel, awards>>

MessageFormat ==
    /\ message.pc = "format"
    /\ message' = FormatOutput(message)
    /\ UNCHANGED <<extract, aliasgen, aggregate, parse, excel, awards>>

MessageNext ==
    \/ MessageGuards
    \/ MessageFirstName
    \/ MessagePrompt
    \/ MessageCallBackend
    \/ MessageFormat

MessageSpec == MessageInit /\ [][MessageNext]_vars

---------------------------------------------------------------------------
(* Properties of the narrative generator.                                  *)

MessageReturned == message.pc = "done"

\* the backend was asked and answered with a text
Succeeded ==
    MessageReturned /\ message.outcome # None /\ message.outcome[1].kind = "content"

\* the backend was asked and the except branch gave the fallback narrative
FellBack ==
    MessageReturned /\ message.outcome # None /\ message.outcome[1].kind # "content"

RECURSIVE BreaksToSpaces(_)
\* s with each of its line breaks (\r\n, \n or \r) replaced by one space
BreaksToSpaces(s) ==
    IF s = <<>> THEN <<>>
    ELSE IF Len(s) > 1 /\ s[1] = "\r" /\ s[2] = "\n"
         THEN <<" ">> \o BreaksToSpaces(SubSeq(s, 3, Len(s)))
    ELSE IF IsLineBreak(s[1]) THEN <<" ">> \o BreaksToSpaces(Tail(s))
    ELSE <<s[1]>> \o BreaksToSpaces(Tail(s))

\* the first n items of seq, all of them when there are fewer
FirstOf(seq, n) == [i \in 1..Min(n, Len(seq)) |-> seq[i]]

\* the evidence of the call's inputs that a narrative is to be built from
SelectedFeedback == FirstOf(message.positive_feedback, 5)
SelectedOpinions ==
    LET raw == FirstOf(message.prof_opinions, 3)
    IN  [i \in 1..Len(raw) |-> Strip(BreaksToSpaces(raw[i]))]

\* the quoted items of a prompt are its lines that start with "  - "
IsEvidenceLine(line) == Len(line) >= 4 /\ SubSeq(line, 1, 4) = <<" "," ","-"," ">>
\* the lines of a set of line starts of s, in the order of s
RECURSIVE LinesFrom(_, _, _)
LinesFrom(s, starts, ends) ==
    IF starts = {} THEN <<>>
    ELSE LET a == CHOOSE x \in starts : \A y \in starts : x <= y
             b == CHOOSE x \in ends : x >= a /\ \A y \in ends : y >= a => x <= y
         IN  <<SubSeq(s, a, b - 1)>> \o LinesFrom(s, starts \ {a}, ends)

EvidenceLines ==
    LET s == message.full_prompt[1]
        ends == { j \in 1..Len(s) : s[j] = "\n" } \cup {Len(s) + 1}
        starts == {1} \cup { j + 1 : j \in ends \ {Len(s) + 1} }
    IN  LinesFrom(s, { a \in starts : IsEvidenceLine(SubSeq(s, a, Min(a + 3, Len(s)))) },
                  ends)

\* C18: the quoted items of the prompt are the first 5 feedback strings
\* followed by the first 3 opinions of the inputs (all of them when fewer),
\* in input order and each numbered from 1, an opinion with every line break
\* inside it replaced by one space; and the output of a successful call
\* holds the Sources Used block that lists these items, with the
\* "No specific ... provided" line for an empty list.
C18_EvidenceSelection ==
    /\ message.full_prompt # None =>
         EvidenceLines =
             [i \in 1..Len(SelectedFeedback) |-> StudentLine(i, SelectedFeedback[i])]
             \o [i \in 1..Len(SelectedOpinions) |-> ProfessorLine(i, SelectedOpinions[i])]
    /\ Succeeded =>
         Contains(message.result,
                  SourcesBlock(SelectedFeedback, SelectedOpinions, message.prof_opinions))

\* a successful call with more than 5 feedback strings and more than 3
\* opinions, all three selected opinions with a line break in them
C18_Witness ==
    /\ Succeeded
    /\ Len(message.positive_feedback) > 5
    /\ Len(message.prof_opinions) > 3
    /\ \A i \in 1..3 : \E k \in DOMAIN message.prof_opinions[i] :
           IsLineBreak(message.prof_opinions[i][k])
    /\ Len(EvidenceLines) = 8
    /\ Len(message.feedback_to_include) = 5
    /\ Len(message.cleaned_opinions_for_prompt) = 3

\* a narrative whose Sources Used block comes before its closing line
SourcesBeforeClosing(teacher_name, text, sources, who) ==
    Titled(teacher_name) \o text \o <<"\n", "\n">>
    \o sources \o <<"\n", "\n">> \o ClosingLine(who)

\* C19: the output of a successful call is the two title lines, the stripped
\* backend text, the Sources Used block and the closing line, in this order
\* and a blank line apart, the closing line being the last line.
C19_SuccessLayout ==
    Succeeded =>
        \E who \in {message.first_name, message.teacher_name} :
            message.result =
                SourcesBeforeClosing(
                    message.teacher_name, Strip(message.outcome[1].content),
                    SourcesBlock(message.feedback_to_include,
                                 message.cleaned_opinions_for_prompt,
                                 message.prof_opinions),
                    who)

\* C20: the successful output and the fallback output both contain
\* "Fantastic job, <teacher_name>!" with teacher_name as it was passed in.
C20_ClosingNamesTeacher ==
    (Succeeded \/ FellBack) =>
        Contains(message.result, ClosingLine(message.teacher_name))

\* the text the fallback narrative holds for an exception whose str() is e
FailureNotice(e, teacher_name) ==
    <<
        "[","A","u","t","o","m","a","t","e","d"," ","g","e","n",
        "e","r","a","t","i","o","n"," ","f","a","i","l","e","d",
        " ","d","u","e"," ","t","o"," ","a","n"," ","e","r","r",
        "o","r",":"," " >> \o e
    \o <<
        "."," ","P","l","e","a","s","e"," ","r","e","v","i","e",
        "w"," ","a","v","a","i","l","a","b","l","e"," ","d","a",
        "t","a"," ","f","o","r"," " >> \o teacher_name \o <<" ","m","a","n","u","a","l","l","y",".","]">>

\* C21: without a client the call returns exactly "Error: OpenAI client not
\* initialized. Check API key.", whatever the name and the evidence, without
\* building a prompt or asking the backend; when the backend raises e the call
\* returns the fallback narrative holding the failure notice for e; and every
\* call ends by returning a string, there being no state it leaves by raising.
C21_ErrorReturns ==
    /\ message.pc \in {"guards", "first_name", "prompt", "call", "format", "done"}
    /\ (MessageReturned /\ message.client = None) =>
           /\ message.result = ClientNotInitialized
           /\ message.outcome = None
           /\ message.full_prompt = None
    /\ (FellBack /\ message.outcome[1].kind = "raises") =>
           Contains(message.result,
                    FailureNotice(message.outcome[1].content, message.teacher_name))

\* a call with evidence whose backend raised, and its fallback narrative
C21_Witness ==
    /\ FellBack
    /\ message.outcome[1] = RaisesWith(ApiError)
    /\ message.teacher_name # <<>>
    /\ message.positive_feedback # <<>>
    /\ message.prof_opinions # <<>>
    /\ Contains(message.result, ApiError)
---------------------------------------------------------------------------
(* The spreadsheet parser: get_all_teacher_names_from_sources and          *)
(* get_all_teacher_feedback.  The two functions that read a sheet,         *)
(* get_teacher_names_from_excel and extract_positive_feedback_for_teacher, *)
(* are what they return for a query; both return [] on a read error.       *)

ECONOMICS_AT24_RESULTS_FILE == <<
        "a","s","s","e","t","s","/","E","c","o","n","o","m","i",
        "c","s"," ","A","T"," ","2","4"," ","R","e","s","u","l",
        "t","s",".","x","l","s","x" >>
ECONOMICS_WT25_SURVEY_FILE ==
    <<
        "a","s","s","e","t","s","/","W","T","2","5"," ","C","o",
        "u","r","s","e"," ","S","u","r","v","e","y"," ","Q","u",
        "a","l","i","t","a","t","i","v","e"," ","c","o","m","m",
        "e","n","t","s"," ","-"," ","E","c","o","n","o","m","i",
        "c","s"," ","v","2",".","x","l","s","x" >>
POSITIVE_FEEDBACK_SHEET_NAME == <<
        "I","n","s","t","r","u","c","t","o","r"," ","f","e","e",
        "d","b","a","c","k"," ","-"," ","p","o","s","i","t","i",
        "v","e" >>

\* files_to_process, lines 108-111
files_to_process ==
    << [file_path |-> ECONOMICS_AT24_RESULTS_FILE, sheet_name |-> POSITIVE_FEEDBACK_SHEET_NAME],
       [file_path |-> ECONOMICS_WT25_SURVEY_FILE, sheet_name |-> POSITIVE_FEEDBACK_SHEET_NAME] >>

\* lines 142-150: the instructor column asked for in a file
InstructorCol(file_path) ==
    IF Contains(file_path, <<"A","T"," ","2","4"," ","R","e","s","u","l","t","s">>) THEN <<
        "I","n","s","t","r","u","c","t","o","r"," ","N","a","m",
        "e" >>
    ELSE <<"I","n","s","t","r","u","c","t","o","r">>

\* lines 142-150: the comment column asked for in a file
CommentCol(file_path) ==
    IF Contains(file_path, <<"A","T"," ","2","4"," ","R","e","s","u","l","t","s">>)
    THEN <<
        "I","f"," ","y","o","u"," ","w","o","u","l","d"," ","l",
        "i","k","e"," ","t","o"," ","a","d","d"," ","a","n","y",
        " ","p","o","s","i","t","i","v","e"," ","c","o","m","m",
        "e","n","t","s"," ","a","b","o","u","t"," ","t","h","i",
        "s"," ","i","n","s","t","r","u","c","t","o","r",","," ",
        "p","l","e","a","s","e"," ","d","o"," ","s","o"," ","h",
        "e","r","e",":" >>
    ELSE IF Contains(file_path, <<
        "W","T","2","5"," ","C","o","u","r","s","e"," ","S","u",
        "r","v","e","y" >>)
    THEN <<
        "I","f"," ","y","o","u"," ","w","o","u","l","d"," ","l",
        "i","k","e"," ","t","o"," ","a","d","d"," ","a","n","y",
        " ","p","o","s","i","t","i","v","e"," ","c","o","m","m",
        "e","n","t","s"," ","a","b","o","u","t"," ","t","h","i",
        "s"," ","c","l","a","s","s"," ","t","e","a","c","h","e",
        "r",","," ","p","l","e","a","s","e"," ","d","o"," ","s",
        "o"," ","h","e","r","e",":" >>
    ELSE <<
        "P","o","s","i","t","i","v","e"," ","c","o","m","m","e",
        "n","t","s" >>

\* the arguments of the call of lines 153-159 for a teacher and a file
FeedbackQuery(teacher_name, file) ==
    [ file_path |-> file.file_path, sheet_name |-> file.sheet_name,
      teacher_name |-> teacher_name,
      instructor_column_name |-> InstructorCol(file.file_path),
      comment_column_name |-> CommentCol(file.file_path) ]

\* the arguments of the calls of lines 174-178 and 184-188
NamesQuery(file_path, instructor_column_name) ==
    [ file_path |-> file_path, sheet_name |-> POSITIVE_FEEDBACK_SHEET_NAME,
      instructor_column_name |-> instructor_column_name ]

\* A call of get_all_teacher_feedback at its entry; comments_in[k][name] is
\* what extract_positive_feedback_for_teacher returns for file k and name.
FeedbackCall(teachers_list, comments_in) ==
    [ pc |-> "start", fn |-> "get_all_teacher_feedback",
      teachers_list |-> teachers_list, comments_in |-> comments_in,
      all_feedback |-> << >>,
      teacher |-> 0, file |-> 0,
      queries |-> <<>> ]

\* line 106
StartFeedback(f) ==
    [f EXCEPT !.all_feedback = [ teacher \in Range(f.teachers_list) |-> <<>> ],
              !.pc = "query", !.teacher = 1, !.file = 1]

MoreQueries(f) == f.pc = "query" /\ f.teacher <= Len(f.teachers_list)

\* lines 113-160, one file of one teacher: the call and the extend
ExtendFeedback(f) ==
    LET teacher_name == f.teachers_list[f.teacher]
        feedback == f.comments_in[f.file][teacher_name]
        last == f.file = Len(files_to_process)
    IN  [f EXCEPT !.queries = Append(@, FeedbackQuery(teacher_name, files_to_process[f.file])),
                  !.all_feedback[teacher_name] = @ \o feedback,
                  !.file = IF last THEN 1 ELSE @ + 1,
                  !.teacher = IF last THEN @ + 1 ELSE @]

\* line 162
ReturnFeedback(f) == [f EXCEPT !.pc = "done"]

RECURSIVE FeedbackRun(_)
\* the call from any of its states to its return
FeedbackRun(f) ==
    IF f.pc = "start" THEN FeedbackRun(StartFeedback(f))
    ELSE IF MoreQueries(f) THEN FeedbackRun(ExtendFeedback(f))
    ELSE IF f.pc = "query" THEN ReturnFeedback(f)
    ELSE f

\* get_all_teacher_feedback(teachers_list)
GetAllTeacherFeedback(teachers_list, comments_in) ==
    FeedbackRun(FeedbackCall(teachers_list, comments_in)).all_feedback

\* A call of get_all_teacher_names_from_sources at its entry; names_in[k] is
\* what get_teacher_names_from_excel returns for file k.
NamesCall(names_in) ==
    [ pc |-> "at24", fn |-> "get_all_teacher_names_from_sources",
      names_in |-> names_in,
      all_names |-> {},
      queries |-> <<>>,
      result |-> <<>> ]

\* lines 169-179
NamesAt24(f) ==
    [f EXCEPT !.queries = Append(@, NamesQuery(ECONOMICS_AT24_RESULTS_FILE, <<
        "I","n","s","t","r","u","c","t","o","r"," ","N","a","m",
        "e" >>)),
              !.all_names = @ \cup Range(f.names_in[1]),
              !.pc = "wt25"]

\* lines 184-189
NamesWt25(f) ==
    [f EXCEPT !.queries = Append(@, NamesQuery(ECONOMICS_WT25_SURVEY_FILE, <<"I","n","s","t","r","u","c","t","o","r">>)),
              !.all_names = @ \cup Range(f.names_in[2]),
              !.pc = "sort"]

\* line 191
SortedNames(f) ==
    [f EXCEPT !.result = Sorted({ name \in f.all_names : name # <<>> }), !.pc = "done"]

\* get_all_teacher_names_from_sources()
GetAllTeacherNames(names_in) == SortedNames(NamesWt25(NamesAt24(NamesCall(names_in)))).result

---------------------------------------------------------------------------
(* Calls of the spreadsheet parser: the teachers asked for, with a name    *)
(* that occurs twice, and sheets that have comments for a name or none;    *)
(* name lists of the two files with a shared name, a repeated name and an  *)
(* empty string.                                                           *)

MaxAsked == 3       \* teachers of a feedback call
MaxListed == 2      \* names a file lists

Alice == <<"A","l","i","c","e">>
Bob == <<"B","o","b">>

AskedPool == { Alice, Bob }
ListedPool == { Alice, Bob, <<"C","h","a","r","l","i","e">>, <<>> }

AliceAT24 == <<
        "A","l","i","c","e"," ","A","T","2","4"," ","c","o","m",
        "m","e","n","t" >>
AliceWT25 == <<
        "A","l","i","c","e"," ","W","T","2","5"," ","c","o","m",
        "m","e","n","t" >>
BobAT24 == <<
        "B","o","b"," ","A","T","2","4"," ","c","o","m","m","e",
        "n","t" >>

\* the comments a file has for a name
CommentPool == { <<>>, <<AliceAT24>>, <<AliceWT25, BobAT24>> }

ExcelInputs ==
    { FeedbackCall(teachers_list, comments_in) :
        teachers_list \in SeqsUpTo(AskedPool, MaxAsked),
        comments_in \in [1..2 -> [AskedPool -> CommentPool]] }
    \cup
    { NamesCall(names_in) : names_in \in [1..2 -> SeqsUpTo(ListedPool, MaxListed)] }

ExcelInit ==
    /\ excel \in ExcelInputs
    /\ extract = Idle
    /\ aliasgen = Idle
    /\ aggregate = Idle
    /\ parse = Idle
    /\ message = Idle
    /\ awards = Idle

ExcelStartFeedback ==
    /\ excel.pc = "start"
    /\ excel' = StartFeedback(excel)
    /\ UNCHANGED <<extract, aliasgen, aggregate, parse, message, awards>>

ExcelExtendFeedback ==
    /\ MoreQueries(excel)
    /\ excel' = ExtendFeedback(excel)
    /\ UNCHANGED <<extract, aliasgen, aggregate, parse, message, awards>>

ExcelReturnFeedback ==
    /\ excel.pc = "query"
    /\ ~MoreQueries(excel)
    /\ excel' = ReturnFeedback(excel)
    /\ UNCHANGED <<extract, aliasgen, aggregate, parse, message, awards>>

ExcelNamesAt24 ==
    /\ excel.pc = "at24"
    /\ excel' = NamesAt24(excel)
    /\ UNCHANGED <<extract, aliasgen, aggregate, parse, message, awards>>

ExcelNamesWt25 ==
    /\ excel.pc = "wt25"
    /\ excel' = NamesWt25(excel)
    /\ UNCHANGED <<extract, aliasgen, aggregate, parse, message, awards>>

ExcelSortedNames ==
    /\ excel.pc = "sort"
    /\ excel' = SortedNames(excel)
    /\ UNCHANGED <<extract, aliasgen, aggregate, parse, message, awards>>

ExcelNext ==
    \/ ExcelStartFeedback
    \/ ExcelExtendFeedback
    \/ ExcelReturnFeedback
    \/ ExcelNamesAt24
    \/ ExcelNamesWt25
    \/ ExcelSortedNames

ExcelSpec == ExcelInit /\ [][ExcelNext]_vars
---------------------------------------------------------------------------
(* save_markdown_message.  The file system is the directory of the         *)
(* recommendations: whether it exists and the content of its files by      *)
(* name; makedirs and open succeed or fail with an OSError.                *)

\* str.isalnum() of one character of the model: a letter or a digit
IsAlnum(c) == c \in Range(UpperCase) \cup Range(LowerCase) \cup Range(DecimalDigits)

RECURSIVE Without(_, _)
\* s.replace(sub, '') for a non-empty sub
Without(s, sub) ==
    IF Len(s) < Len(sub) THEN s
    ELSE IF SubSeq(s, 1, Len(sub)) = sub THEN Without(SubSeq(s, Len(sub) + 1, Len(s)), sub)
    ELSE <<Head(s)>> \o Without(Tail(s), sub)

\* lines 26-27
SafeFilename(teacher_name) ==
    LET kept == SelectSeq(teacher_name, LAMBDA c : IsAlnum(c) \/ c \in {" ", "-", "_"})
    IN  [k \in 1..Len(kept) |-> IF kept[k] = " " THEN "_" ELSE kept[k]] \o <<".","m","d">>

\* line 29: nothing of the name is left in the file name
NoValidFilename(safe_filename) == Without(Without(safe_filename, <<"_">>), <<".","m","d">>) = <<>>

\* the directory before any file was saved
NoDirectory == [exists |-> FALSE, files |-> << >>]

\* what the operating system does with the calls of one save
IoOutcomes == {"ok", "makedirs_fails", "open_fails"}

\* save_markdown_message(teacher_name, message_content) on the directory dir:
\* the directory after the call and the value returned
SaveMarkdownMessage(dir, teacher_name, message_content, io) ==
    LET safe_filename == SafeFilename(teacher_name)
    IN  IF NoValidFilename(safe_filename) THEN [dir |-> dir, result |-> FALSE]
        ELSE IF ~dir.exists /\ io = "makedirs_fails" THEN [dir |-> dir, result |-> FALSE]
        ELSE IF io = "open_fails"
        THEN [dir |-> [dir EXCEPT !.exists = TRUE], result |-> FALSE]
        ELSE [dir |-> [exists |-> TRUE,
                       files |-> DictSet(dir.files, safe_filename, message_content)],
              result |-> TRUE]

---------------------------------------------------------------------------
(* process_teacher_awards.  Its calls of the spreadsheet parser, of the    *)
(* Evidence Aggregator and of the narrative generator run to their end     *)
(* within one step.                                                        *)

RECURSIVE ParseAll(_, _)
\* line 138 for the files from the current one on
ParseAll(f, files) ==
    IF MoreFiles(f) THEN ParseAll(ParseFile(f, files[f.file]), files) ELSE f

\* get_all_professors_opinions from its entry to its return, the files being
\* `files` and the alias backend answering oracle[name]
AggregateRun(f, files, oracle) ==
    LET started == StartAggregate(f)
        filtered == FilterContents(ParseAll(started, files))
    IN  IF started.pc = "done" THEN started
        ELSE IF filtered.pc = "done" THEN filtered
        ELSE SequentialPass(filtered, oracle)

\* generate_recommendation_message from its entry to its return
MessageRun(f, outcome) ==
    LET checked == CheckClient(f)
        asked == CreateCompletion(BuildPrompt(ExtractFirstName(checked)), outcome)
    IN  IF checked.pc = "done" THEN checked
        ELSE IF asked.pc = "done" THEN asked
        ELSE FormatOutput(asked)

\* dict.get(key, [])
DictGet(dict, key) == IF key \in DOMAIN dict THEN dict[key] ELSE <<>>

\* A call of process_teacher_awards at its entry, with what its environment
\* gives: the key of the configuration, the names the spreadsheets list (or
\* an exception), their comments, the message files, the answers of the alias
\* backend, and the client and key of the narrative generator.
AwardsCall(OPENAI_API_KEY, specific_teachers, names, comments_in, files, oracle, client, generator_key) ==
    [ pc |-> "check_key",
      OPENAI_API_KEY |-> OPENAI_API_KEY,
      specific_teachers |-> specific_teachers,
      names |-> names, comments_in |-> comments_in,
      files |-> files, oracle |-> oracle,
      client |-> client, generator_key |-> generator_key,
      teachers_list |-> <<>>,
      all_student_feedback |-> << >>,
      all_prof_opinions |-> << >>,
      teacher |-> 0,
      recommendation_content |-> <<>>,
      successful_generations |-> 0,
      failed_generations |-> 0,
      dir |-> NoDirectory,
      generate_calls |-> 0,     \* calls of generate_recommendation_message
      saved |-> <<>> ]          \* the calls of save_markdown_message

\* lines 21-24
CheckKey(f) ==
    IF f.OPENAI_API_KEY = <<>> THEN [f EXCEPT !.pc = "done"]
    ELSE [f EXCEPT !.pc = "teachers"]

\* lines 27-42
GetTeachers(f) ==
    IF Truthy(f.specific_teachers)
    THEN [f EXCEPT !.teachers_list = f.specific_teachers[1], !.pc = "feedback"]
    ELSE IF f.names.kind = "raises" THEN [f EXCEPT !.pc = "done"]
    ELSE LET teachers_list == GetAllTeacherNames(f.names.content)
         IN  IF teachers_list = <<>> THEN [f EXCEPT !.teachers_list = <<>>, !.pc = "done"]
             ELSE [f EXCEPT !.teachers_list = teachers_list, !.pc = "feedback"]

\* line 53
FetchFeedback(f) ==
    [f EXCEPT !.all_student_feedback = GetAllTeacherFeedback(f.teachers_list, f.comments_in),
              !.pc = "opinions"]

\* lines 56-59
FetchOpinions(f) ==
    LET paths == [k \in 1..Len(f.files) |-> <<"f">>]
        call == AggregateCall(f.teachers_list, paths, Some(<<"k">>), Some(<<"k">>))
    IN  [f EXCEPT !.all_prof_opinions = AggregateRun(call, f.files, f.oracle).all_opinions,
                  !.pc = "generate", !.teacher = 1]

MoreSubjects(f) == f.pc = "generate" /\ f.teacher <= Len(f.teachers_list)

\* the call of lines 76-80 for the current teacher, at its entry
MessageCallOf(f) ==
    LET teacher_name == f.teachers_list[f.teacher]
    IN  MessageCall(teacher_name,
                    DictGet(f.all_student_feedback, teacher_name),
                    DictGet(f.all_prof_opinions, teacher_name),
                    f.client, f.generator_key)

\* lines 61-80, the call having ended in the frame `called`
Generate(f, called) ==
    [f EXCEPT !.recommendation_content = called.result,
              !.generate_calls = @ + 1,
              !.pc = "save"]

\* the test of line 82
ReportsError(recommendation_content) == Contains(recommendation_content, <<"E","r","r","o","r",":">>)

SaveUnlessError(f, io) ==
    LET teacher_name == f.teachers_list[f.teacher]
        save == SaveMarkdownMessage(f.dir, teacher_name, f.recommendation_content, io)
    IN  IF ReportsError(f.recommendation_content)
        THEN [f EXCEPT !.failed_generations = @ + 1, !.teacher = @ + 1, !.pc = "generate"]
        ELSE [f EXCEPT !.dir = save.dir,
                       !.saved = Append(@, [teacher_name |-> teacher_name,
                                            file |-> SafeFilename(teacher_name),
                                            result |-> save.result]),
                       !.successful_generations = IF save.result THEN @ + 1 ELSE @,
                       !.failed_generations = IF save.result THEN @ ELSE @ + 1,
                       !.teacher = @ + 1,
                       !.pc = "generate"]

\* lines 82-95
Save(f, io) ==
    LET teacher_name == f.teachers_list[f.teacher]
        save == SaveMarkdownMessage(f.dir, teacher_name, f.recommendation_content, io)
        succeeded == ~ReportsError(f.recommendation_content) /\ save.result
    IN  [f EXCEPT !.dir = save.dir,
                  !.saved = Append(@, [teacher_name |-> teacher_name,
                                       file |-> SafeFilename(teacher_name),
                                       result |-> save.result]),
                  !.successful_generations = IF succeeded THEN @ + 1 ELSE @,
                  !.failed_generations = IF succeeded THEN @ ELSE @ + 1,
                  !.teacher = @ + 1,
                  !.pc = "generate"]

\* lines 97-101
Finish(f) == [f EXCEPT !.pc = "done"]
---------------------------------------------------------------------------
(* Runs of process_teacher_awards: teachers named on the command line or   *)
(* listed by the spreadsheets, with names that differ in punctuation only  *)
(* and a name without a letter; message files with more than three         *)
(* mentions of a subject, in either order; a generator with or without     *)
(* client and key, whose backend answers or raises.                        *)

MaxSubjects == 2    \* teachers of a run

DrA == <<"D","r","."," ","A">>

SubjectPool == { DrA, <<"D","r"," ","A">>, <<"b">>, <<".">> }

\* three different contexts of "b" in the first file, one in the second
FourMentions == Body(<<
        "c"," ","b","\n","d"," ","b","\n","b"," ","e","\n","b"," ",
        "f" >>)
TwoMentions == Body(<<"a"," ","b","\n","b">>)

CorpusPool == { <<>>, <<FourMentions, TwoMentions>>, <<TwoMentions, FourMentions>> }

\* what get_teacher_names_from_excel returns for the two files, or an
\* exception of get_all_teacher_names_from_sources
NamesReturned(at24, wt25) == [kind |-> "returns", content |-> <<at24, wt25>>]
NamesRaise == [kind |-> "raises", content |-> <<>>]

\* the comments of the two files for a name
CommentsOf == <<[name \in SubjectPool |-> IF name = <<"b">> THEN <<AliceAT24>> ELSE <<>>],
                [name \in SubjectPool |-> IF name = DrA THEN <<AliceWT25, BobAT24>> ELSE <<>>]>>

AwardsInputs ==
    { AwardsCall(<<"k">>, Some(teachers), NamesRaise, CommentsOf, files,
                 [name \in SubjectPool |-> Raises], client, generator_key) :
        teachers \in SeqsUpTo(SubjectPool, MaxSubjects),
        files \in CorpusPool,
        client \in {None, Some("client")},
        generator_key \in {<<>>, <<"k">>} }
    \cup
    { AwardsCall(<<"k">>, None, names, CommentsOf, files,
                 [name \in SubjectPool |-> Raises], Some("client"), <<"k">>) :
        names \in {NamesRaise, NamesReturned(<<>>, <<>>),
                   NamesReturned(<<<<"b">>, DrA>>, <<<<"b">>, <<>>>>)},
        files \in CorpusPool }
    \cup
    { AwardsCall(<<>>, Some(<<<<"b">>>>), NamesRaise, CommentsOf, <<>>,
                 [name \in SubjectPool |-> Raises], None, <<>>) }

\* the answers of the narrative backend in a run
AwardsOutcomes == { Content(<<" ","G","e","n","e","r","a","t","e","d","."," ","\n">>), RaisesWith(ApiError) }

AwardsInit ==
    /\ awards \in AwardsInputs
    /\ extract = Idle
    /\ aliasgen = Idle
    /\ aggregate = Idle
    /\ parse = Idle
    /\ message = Idle
    /\ excel = Idle

AwardsCheckKey ==
    /\ awards.pc = "check_key"
    /\ awards' = CheckKey(awards)
    /\ UNCHANGED <<extract, aliasgen, aggregate, parse, message, excel>>

AwardsGetTeachers ==
    /\ awards.pc = "teachers"
    /\ awards' = GetTeachers(awards)
    /\ UNCHANGED <<extract, aliasgen, aggregate, parse, message, excel>>

AwardsFetchFeedback ==
    /\ awards.pc = "feedback"
    /\ awards' = FetchFeedback(awards)
    /\ UNCHANGED <<extract, aliasgen, aggregate, parse, message, excel>>

AwardsFetchOpinions ==
    /\ awards.pc = "opinions"
    /\ awards' = FetchOpinions(awards)
    /\ UNCHANGED <<extract, aliasgen, aggregate, parse, message, excel>>

\* the narrative generator runs to its end within the step
AwardsGenerate ==
    /\ MoreSubjects(awards)
    /\ \E outcome \in AwardsOutcomes :
         /\ message' = MessageRun(MessageCallOf(awards), outcome)
         /\ awards' = Generate(awards, message')
    /\ UNCHANGED <<extract, aliasgen, aggregate, parse, excel>>

AwardsSave ==
    /\ awards.pc = "save"
    /\ \E io \in IoOutcomes : awards' = Save(awards, io)
    /\ UNCHANGED <<extract, aliasgen, aggregate, parse, message, excel>>

AwardsFinish ==
    /\ awards.pc = "generate"
    /\ ~MoreSubjects(awards)
    /\ awards' = Finish(awards)
    /\ UNCHANGED <<extract, aliasgen, aggregate, parse, message, excel>>

AwardsNext ==
    \/ AwardsCheckKey
    \/ AwardsGetTeachers
    \/ AwardsFetchFeedback
    \/ AwardsFetchOpinions
    \/ AwardsGenerate
    \/ AwardsSave
    \/ AwardsFinish

AwardsSpec == AwardsInit /\ [][AwardsNext]_vars
---------------------------------------------------------------------------
(* Properties of process_teacher_awards.                                   *)

AwardsReturned == awards.pc = "done"

\* the subjects were handled: the run did not return before its loop
AwardsCompleted == AwardsReturned /\ awards.teacher > Len(awards.teachers_list)

\* the call of generate_recommendation_message for the current subject got no
\* narrative from the backend: no client, no key, or the backend call raised
GenerationFailed ==
    /\ message.pc = "done"
    /\ \/ message.client = None
       \/ message.api_key = <<>>
       \/ message.outcome # None /\ message.outcome[1].kind # "content"

\* C23: a subject whose narrative generation failed (no client, no key, or a
\* backend call that raised) is counted in failed_generations and not in
\* successful_generations.
C23_FailuresCounted ==
    [][(awards.pc = "save" /\ GenerationFailed) =>
          /\ awards'.failed_generations = awards.failed_generations + 1
          /\ awards'.successful_generations = awards.successful_generations]_vars

\* the loop over the subjects has been entered
InSubjects == awards.pc \in {"generate", "save"} \/ AwardsCompleted

\* the names of the run, as listed
AwardsNames == Range(awards.teachers_list)

\* C24: with the key set and a list of teachers, the feedback and the opinions
\* of all the teachers are there before the first narrative is asked for and
\* do not change afterwards; the entries of the list are handled in list order,
\* each with one call of generate_recommendation_message and then one call of
\* save_markdown_message with what that call returned, also when it reported
\* an error; at the end successful_generations + failed_generations is the
\* number of entries.
C24_SubjectProtocol ==
    /\ [](~InSubjects => awards.generate_calls = 0 /\ awards.saved = <<>>)
    /\ [](InSubjects =>
            /\ awards.teachers_list # <<>>
            /\ DOMAIN awards.all_student_feedback = AwardsNames
            /\ DOMAIN awards.all_prof_opinions = AwardsNames
            /\ \A k \in 1..Len(awards.saved) :
                   awards.saved[k].teacher_name = awards.teachers_list[k]
            /\ awards.successful_generations + awards.failed_generations
                   = Len(awards.saved))
    /\ [](awards.pc = "generate" =>
            /\ awards.generate_calls = awards.teacher - 1
            /\ Len(awards.saved) = awards.teacher - 1)
    /\ [](awards.pc = "save" =>
            /\ awards.generate_calls = awards.teacher
            /\ Len(awards.saved) = awards.teacher - 1
            /\ message.pc = "done"
            /\ message.teacher_name = awards.teachers_list[awards.teacher]
            /\ awards.recommendation_content = message.result)
    /\ [](AwardsCompleted =>
            /\ awards.generate_calls = Len(awards.teachers_list)
            /\ Len(awards.saved) = Len(awards.teachers_list)
            /\ awards.successful_generations + awards.failed_generations
                   = Len(awards.teachers_list))
    /\ [][InSubjects =>
            /\ awards'.all_student_feedback = awards.all_student_feedback
            /\ awards'.all_prof_opinions = awards.all_prof_opinions
            /\ awards.pc = "save" =>
                 LET call == awards'.saved[Len(awards'.saved)]
                 IN  call.result =>
                       awards'.dir.files[call.file] = awards.recommendation_content]_vars

\* the end of a run over two teachers without a narrative client: both
\* narratives reported an error, both were saved, both are counted as failed
C24_Witness ==
    /\ AwardsCompleted
    /\ Len(awards.teachers_list) = 2
    /\ awards.generate_calls = 2
    /\ awards.failed_generations = 2
    /\ \A k \in 1..2 :
         /\ awards.saved[k].result
         /\ ReportsError(awards.dir.files[awards.saved[k].file])

\* the save calls of the run so far that returned True
SavedFiles == { k \in 1..Len(awards.saved) : awards.saved[k].result }

\* the file name the documentation gives a teacher: the letters, digits,
\* spaces, hyphens and underscores of the name, the spaces as underscores
DocumentedFilename(teacher_name) ==
    LET keep == { k \in 1..Len(teacher_name) :
                    IsAlnum(teacher_name[k]) \/ teacher_name[k] \in {" ", "-", "_"} }
        RECURSIVE from(_)
        from(k) == IF k > Len(teacher_name) THEN <<>>
                   ELSE IF k \notin keep THEN from(k + 1)
                   ELSE <<IF teacher_name[k] = " " THEN "_" ELSE teacher_name[k]>> \o from(k + 1)
    IN  from(1)

\* C25: one output file per subject: two saves for different teacher names
\* that both returned True wrote different files; the file of a teacher is
\* the sanitised name followed by '.md'; when only underscores are left of
\* the name the save returns False.
C25_OneFilePerSubject ==
    /\ \A i, j \in SavedFiles :
          awards.saved[i].teacher_name # awards.saved[j].teacher_name
              => awards.saved[i].file # awards.saved[j].file
    /\ \A k \in 1..Len(awards.saved) :
          /\ awards.saved[k].file
                 = DocumentedFilename(awards.saved[k].teacher_name) \o <<".","m","d">>
          /\ Range(DocumentedFilename(awards.saved[k].teacher_name)) \subseteq {"_"}
                 => ~awards.saved[k].result
---------------------------------------------------------------------------
(* The Mention Scanner and its alias list                                  *)

\* the scan has returned
ExtractDone == extract.pc = "done"

\* the alias is empty or holds whitespace only
IsBlank(alias) == \A k \in 1..Len(alias) : IsSpace(alias[k])

\* the alias list of the call, [] for None
AliasesGiven == IF extract.teacher_aliases = None THEN <<>> ELSE extract.teacher_aliases[1]

\* the k-th line (0-based) of the doc-th document
LineOf(doc, i) == SplitLines(extract.eml_texts[doc])[i + 1]

TermSet(teacher_name, aliases) ==
    {Normalize(teacher_name)}
        \cup { Normalize(aliases[k]) : k \in { j \in 1..Len(aliases) : ~IsBlank(aliases[j]) } }

\* alias lists to compare a call with: the lists of the calls permuted, with
\* repetitions, in other case and with other whitespace, and others
AliasVariants ==
    { <<>>,
      << <<" ","\t">>, <<>> >>,
      << <<"b">> >>,
      << <<"B">>, <<" ","b"," ">>, <<"b">> >>,
      << <<"b">>, <<"B"," "," ","_">> >>,
      << <<"b","\t","_">>, <<"b">>, <<"b"," ","_">> >>,
      << <<"a","b">> >>,
      << <<"A","\t","B">>, <<"a"," ","b">> >>,
      << <<"a",".">>, <<"B">> >>,
      << <<"A","B","B">> >>,
      << <<"T","O","M">>, <<" ","t","o","m">> >> }

\* C27: the result of a scan depends on the alias list only through the set
\* of normalised search terms: every alias list with the same set (the list
\* permuted, with repetitions, in other case or with other whitespace) gives
\* the same result.
C27_TermSetOnly ==
    ExtractDone =>
        \A aliases \in AliasVariants :
            TermSet(extract.teacher_name, aliases)
                    = TermSet(extract.teacher_name, AliasesGiven)
                => ExtractOpinions(extract.teacher_name, extract.eml_texts,
                                   extract.context_window_lines, Some(aliases))
                       = extract.result

\* a call with two aliases that reported a line returned, and a list of three
\* aliases in another order, case and spacing has the same set of terms
C27_Witness ==
    /\ ExtractDone
    /\ Normalize(extract.teacher_name) # <<>>
    /\ extract.result # <<>>
    /\ Cardinality(TermSet(extract.teacher_name, AliasesGiven)) = 3
    /\ \E aliases \in AliasVariants :
          /\ Len(aliases) = 3
          /\ aliases[1] # AliasesGiven[1]
          /\ TermSet(extract.teacher_name, aliases)
                 = TermSet(extract.teacher_name, AliasesGiven)

\* C28: more aliases never lose evidence: every snippet of the result of a
\* call is in the result of the call with further aliases after its own, and
\* every snippet of the call without aliases is in the result of the call.
C28_AliasesOnlyAdd ==
    ExtractDone =>
        /\ \A more \in AliasVariants :
              Range(extract.result) \subseteq
                  Range(ExtractOpinions(extract.teacher_name, extract.eml_texts,
                                        extract.context_window_lines,
                                        Some(AliasesGiven \o more)))
        /\ Range(ExtractOpinions(extract.teacher_name, extract.eml_texts,
                                 extract.context_window_lines, None))
               \subseteq Range(extract.result)

\* a call with aliases that reported a line returned; further aliases add a
\* snippet and the call without aliases reports less
C28_Witness ==
    /\ ExtractDone
    /\ AliasesGiven # <<>>
    /\ extract.result # <<>>
    /\ ExtractOpinions(extract.teacher_name, extract.eml_texts,
                       extract.context_window_lines, None) # extract.result
    /\ \E more \in AliasVariants :
          Len(ExtractOpinions(extract.teacher_name, extract.eml_texts,
                              extract.context_window_lines, Some(AliasesGiven \o more)))
              > Len(extract.result)
---------------------------------------------------------------------------
(* The evidence of a narrative, from the message files to the prompt       *)

\* the snippets of the lines of the files that mention the name: a file with
\* content, a line with the normalised name at word boundaries, the two lines
\* before and after it
SnippetsFound(teacher_name, files) ==
    UNION { LET lines == SplitLines(files[d].text)
            IN  { ContextSnippet(lines, i, 2) :
                    i \in { j \in 0..(Len(lines) - 1) :
                              ReSearch(MentionPattern(Normalize(teacher_name)),
                                       Normalize(lines[j + 1])) } }
            : d \in { k \in 1..Len(files) :
                        files[k].kind = "body" /\ Strip(files[k].text) # <<>> } }
        \ {<<>>}

\* the three smallest strings of S in ascending order, all when fewer
ThreeSmallest(S) ==
    LET below(s) == Cardinality({ t \in S : StrLess(t, s) })
        small == { s \in S : below(s) < 3 }
    IN  [i \in 1..Cardinality(small) |-> CHOOSE s \in small : below(s) = i - 1]

\* seq in reverse order
Reversed(seq) == [i \in 1..Len(seq) |-> seq[Len(seq) + 1 - i]]

\* the quoted professor comments of the prompt
ProfessorLines ==
    SelectSeq(EvidenceLines,
              LAMBDA line : /\ Len(line) >= 13
                            /\ SubSeq(line, 1, 13) = <<" "," ","-"," ","P","r","o","f","e","s","s","o","r">>)

\* C29: the professor opinions in the prompt of a subject and in the Sources
\* Used block of its narrative are the first three entries of the subject's
\* list in the Evidence Map, which are the three smallest snippets found for
\* the subject in the files (all when fewer); they are the same for the files
\* in reverse order.
C29_EvidenceEndToEnd ==
    (awards.pc = "save" /\ message.full_prompt # None) =>
        LET teacher_name == awards.teachers_list[awards.teacher]
            evidence == DictGet(awards.all_prof_opinions, teacher_name)
            smallest == ThreeSmallest(SnippetsFound(teacher_name, awards.files))
            cleaned == [i \in 1..Len(smallest) |-> Strip(BreaksToSpaces(smallest[i]))]
            paths == [k \in 1..Len(awards.files) |-> <<"f">>]
            reverse == AggregateRun(AggregateCall(awards.teachers_list, paths,
                                                  Some(<<"k">>), Some(<<"k">>)),
                                    Reversed(awards.files), awards.oracle)
        IN  /\ FirstOf(evidence, 3) = smallest
            /\ ProfessorLines = [i \in 1..Len(cleaned) |-> ProfessorLine(i, cleaned[i])]
            /\ Succeeded =>
                 Contains(message.result, SourcesBlock(SelectedFeedback, cleaned, evidence))
            /\ FirstOf(reverse.all_opinions[teacher_name], 3) = smallest

\* the narrative of a subject with four snippets in two files was generated;
\* the smallest snippet is of the second file, the largest is left out
C29_Witness ==
    /\ awards.pc = "save"
    /\ Succeeded
    /\ awards.files = <<FourMentions, TwoMentions>>
    /\ Len(DictGet(awards.all_prof_opinions, awards.teachers_list[awards.teacher])) = 4
    /\ Len(ProfessorLines) = 3
    /\ DictGet(awards.all_prof_opinions, awards.teachers_list[awards.teacher])[1]
           = TwoMentions.text
---------------------------------------------------------------------------
(* Properties of the spreadsheet parser                                    *)

\* a call of the spreadsheet parser has returned
ExcelDone(fn) == excel.pc = "done" /\ excel.fn = fn

\* the queries of the call for the teacher and the file
QueriesFor(teacher_name, file_path) ==
    { k \in 1..Len(excel.queries) :
        /\ excel.queries[k].teacher_name = teacher_name
        /\ excel.queries[k].file_path = file_path }

\* C30: get_all_teacher_names_from_sources returns the names of the two files
\* in ascending order, each once and without the empty string;
\* get_all_teacher_feedback returns a map with the given teachers as keys,
\* the value of a teacher being the comments of the first file followed by
\* those of the second, and asks each file once for each teacher.
C30_SpreadsheetResults ==
    /\ ExcelDone("get_all_teacher_names_from_sources") =>
          /\ Range(excel.result)
                 = (Range(excel.names_in[1]) \cup Range(excel.names_in[2])) \ {<<>>}
          /\ \A i, j \in 1..Len(excel.result) :
                 i < j => StrLess(excel.result[i], excel.result[j])
    /\ ExcelDone("get_all_teacher_feedback") =>
          /\ DOMAIN excel.all_feedback = Range(excel.teachers_list)
          /\ \A teacher_name \in Range(excel.teachers_list) :
                /\ excel.all_feedback[teacher_name]
                       = excel.comments_in[1][teacher_name] \o excel.comments_in[2][teacher_name]
                /\ \A k \in 1..Len(files_to_process) :
                       Cardinality(QueriesFor(teacher_name, files_to_process[k].file_path)) = 1

=============================================================================
